---- MODULE Spec2Model ----
(***************************************************************************)
(* Red-black tree of RBTree.cc (src/unnamed/part_000, lines 17-486).       *)
(*                                                                         *)
(* A node reference is a node number in Nodes, NULL is 0.  The machine     *)
(* address of node n is n * NodeAlign, so that the packed word             *)
(* __rb_parent_color is modelled as the integer the code computes          *)
(* (address | colour) and read back by masking, as the macros do.          *)
(* The key of a node is its number: the caller's ordering is the order     *)
(* of the node numbers.                                                    *)
(*                                                                         *)
(* The module also models, each under a specification of its own,          *)
(* AsyncMessenger's start/wait/shutdown, learned_addr and reap_dead and    *)
(* Processor::bind (src/src/msg/async/AsyncMessenger.cc), and the key      *)
(* encoding of LMDBStore (src/unnamed/part_000, lines 728-998).            *)
(***************************************************************************)
EXTENDS Integers, Sequences, FiniteSets, TLC

\* ------------------------------------------------------------------ bounds

\* Number of node objects the caller owns.
MaxNodes == 7
\* Cap on the number of insertions of one behaviour.
MaxIns == 8
\* Largest raw address stored in the packed word on its own.
MaxAddr == 40
\* Largest ms_bind_retry_count given to Processor::bind.
MaxRetry == 2
\* Largest port number: ports are 1..MaxPort, 0 is "no port".
MaxPort == 2
\* Number of threads that call learned_addr.
MaxLearners == 2
\* Number of AsyncConnection objects.
MaxConns == 3
\* Longest prefix and longest key given to LMDBStore.
MaxLen == 2
\* Largest byte value in a prefix or key: bytes are 0..MaxByte.
MaxByte == 2

\* ------------------------------------------------------- program constants

RB_RED == 0
RB_BLACK == 1
\* Alignment of an RBNode object: the packed word keeps the two low bits free.
NodeAlign == 4

NULL == 0
Nodes == 1..MaxNodes

\* The errno value of a listen that found the address taken.
EADDRINUSE == 98
\* The errno value split_key returns negated.
EINVAL == 22

\* ------------------------------------------------------------------- state

VARIABLES
  rb_left,            \* [Nodes -> Nodes \cup {NULL}]   RBNode::rb_left
  rb_right,           \* [Nodes -> Nodes \cup {NULL}]   RBNode::rb_right
  rb_parent_color,    \* [Nodes -> Nat]                 RBNode::__rb_parent_color
  rb_node,            \* Nodes \cup {NULL}              RBTree::rb_node (the root)
  fault,              \* "none", or the undefined behaviour the last call ran into
  ins,                \* number of completed insertions
  ers,                \* number of completed erasures
  asc,                \* k when the calls so far were exactly insert 1, ..., insert k; -1 otherwise
  last,               \* the last completed public call and what it did:
                      \*   op, node   the call and its node (victim for replace),
                      \*   other      insert: the parent the node was linked under,
                      \*              erase: what __rb_erase returned,
                      \*              replace: the new node,
                      \*   rot, iter, flips  rotations, fixup-loop iterations and recolour-only
                      \*              iterations of the call,
                      \*   kind       erase: the branch __rb_erase took,
                      \*   was        the value of asc before the call,
                      \*   removed    erase: the colour the unlink phase removed,
                      \*   slot       erase: the child that took the vacated slot
  word,               \* one __rb_parent_color word written with raw addresses
  stored              \* the last write to word and what it is to read back as:
                      \*   op         the function that wrote it,
                      \*   ref        the parent address it is to hold,
                      \*   color      the colour it is to hold

\* The other components of the repository, each idle while the tree runs.
VARIABLES
  messenger,          \* AsyncMessenger: lock, started, stopped and the threads in
                      \*   start(), wait() and shutdown()
  binding,            \* one call of Processor::bind: its locals and position
  learning,           \* AsyncMessenger: need_addr, my_inst.addr and the threads
                      \*   in learned_addr()
  reaping,            \* AsyncMessenger: conns, accepting_conns, deleted_conns and
                      \*   one call of reap_dead()
  keys                \* LMDBStore: one prefix and key, combined and split again

treeAll == <<rb_left, rb_right, rb_parent_color, rb_node, fault, ins, ers, asc, last,
             word, stored>>

extVars == <<messenger, binding, learning, reaping, keys>>

vars == <<rb_left, rb_right, rb_parent_color, rb_node, fault, ins, ers, asc, last,
          word, stored, messenger, binding, learning, reaping, keys>>

\* ------------------------------------------------------ the packed word

RECURSIVE BitOr(_, _)
\* a | b on non-negative integers.
BitOr(a, b) ==
  IF a = 0 THEN b
  ELSE IF b = 0 THEN a
  ELSE (IF a % 2 = 1 \/ b % 2 = 1 THEN 1 ELSE 0) + 2 * BitOr(a \div 2, b \div 2)

\* (unsigned long)p for a node reference p.
Addr(p) == p * NodeAlign

\* (RBNode *)w for a word w.
AsNode(w) == w \div NodeAlign

\* pc & ~3
ParentAddr(pc) == pc - (pc % 4)

\* #define __rb_parent(pc) ((RBNode*)(pc & ~3))
__rb_parent(pc) == AsNode(ParentAddr(pc))

\* #define __rb_color(pc) ((pc) & 1)
__rb_color(pc) == pc % 2

__rb_is_black(pc) == __rb_color(pc) = 1

__rb_is_red(pc) == __rb_color(pc) = 0

\* Faulty variant: the colour bit of the old word is not carried over.
SetParentWord_DropsColor(pc, a) == a

\* rb_color(rb) | (unsigned long)p for the word pc of rb and the address a of p.
SetParentWord(pc, a) == BitOr(__rb_color(pc), a)

\* (unsigned long)p | color for the address a of p.
PackWord(a, color) == BitOr(a, color)

\* pc | RB_BLACK
SetBlackWord(pc) == BitOr(pc, RB_BLACK)

\* ------------------------------------------------------------- the heap
\* The operators below transform a heap record t:
\*   t.l, t.r, t.pc   the three linkage fields of every node,
\*   t.root           RBTree::rb_node,
\*   t.fault          "none" until a call dereferences NULL ("null") or a
\*                    loop exceeds the number of nodes ("loop"),
\*   t.rot            rotations done by the call so far,
\*   t.iter           iterations of the fixup loop done by the call so far,
\*   t.flips          of these, the iterations that only recoloured and went
\*                    on with the loop (insert Case 1, erase Case 2).

Heap == [l |-> rb_left, r |-> rb_right, pc |-> rb_parent_color,
         root |-> rb_node, fault |-> fault, rot |-> 0, iter |-> 0, flips |-> 0]

Fault(t, what) == IF t.fault = "none" THEN [t EXCEPT !.fault = what] ELSE t

SetLeft(t, n, v) == IF n = NULL THEN Fault(t, "null") ELSE [t EXCEPT !.l[n] = v]

SetRight(t, n, v) == IF n = NULL THEN Fault(t, "null") ELSE [t EXCEPT !.r[n] = v]

SetPC(t, n, w) == IF n = NULL THEN Fault(t, "null") ELSE [t EXCEPT !.pc[n] = w]

Left(t, n) == IF n = NULL THEN NULL ELSE t.l[n]

Right(t, n) == IF n = NULL THEN NULL ELSE t.r[n]

PC(t, n) == IF n = NULL THEN 0 ELSE t.pc[n]

\* RBNode::parent()
parent(t, n) == __rb_parent(PC(t, n))

rb_color(t, rb) == __rb_color(PC(t, rb))

rb_is_red(t, rb) == __rb_is_red(PC(t, rb))

rb_is_black(t, rb) == __rb_is_black(PC(t, rb))

rb_set_parent(t, rb, p) == SetPC(t, rb, SetParentWord(PC(t, rb), Addr(p)))

rb_set_parent_color(t, rb, p, color) == SetPC(t, rb, PackWord(Addr(p), color))

\* Faulty variant: the root field is never written.
__rb_change_child_NeverRoot(t, old, n, prnt) ==
  IF prnt # NULL
  THEN IF t.l[prnt] = old THEN SetLeft(t, prnt, n) ELSE SetRight(t, prnt, n)
  ELSE t

\* Faulty variant: the root field is written only when the new child is present.
__rb_change_child_KeepsRoot(t, old, n, prnt) ==
  IF prnt # NULL
  THEN IF t.l[prnt] = old THEN SetLeft(t, prnt, n) ELSE SetRight(t, prnt, n)
  ELSE IF n # NULL THEN [t EXCEPT !.root = n] ELSE t

__rb_change_child(t, old, n, prnt) ==
  IF prnt # NULL
  THEN IF t.l[prnt] = old THEN SetLeft(t, prnt, n) ELSE SetRight(t, prnt, n)
  ELSE [t EXCEPT !.root = n]

rb_set_black(t, rb) == SetPC(t, rb, SetBlackWord(PC(t, rb)))

\* Faulty variant: the read goes one level too far and returns the parent of
\* the node the word refers to.
rb_red_parent_OfParent(t, red) ==
  IF AsNode(PC(t, red)) = NULL THEN NULL ELSE parent(t, AsNode(PC(t, red)))

\* return (RBNode *)red->__rb_parent_color;
\* The whole word is taken as the reference: it names a node (or NULL) only
\* when its low bits are clear, that is when the node is red.
rb_red_parent(t, red) == AsNode(PC(t, red))

\* Whether the word of node red, read as a reference, is a node address.
RedParentIsNode(t, red) == PC(t, red) % NodeAlign = 0

\* Faulty variant: old keeps its former parent instead of getting n as its parent.
__rb_rotate_set_parents_OldParent(t, old, n, color) ==
  LET prnt == parent(t, old)
      t1 == SetPC(t, n, PC(t, old))
      t2 == rb_set_parent_color(t1, old, prnt, color)
  IN  [__rb_change_child(t2, old, n, prnt) EXCEPT !.rot = @ + 1]

__rb_rotate_set_parents(t, old, n, color) ==
  LET prnt == parent(t, old)
      t1 == SetPC(t, n, PC(t, old))
      t2 == rb_set_parent_color(t1, old, n, color)
  IN  [__rb_change_child(t2, old, n, prnt) EXCEPT !.rot = @ + 1]

\* ------------------------------------------------------------ __rb_insert

\* Faulty variant: the parent is not painted black.
InsertCase1_ParentStaysRed(t, prnt, gparent, tmp) ==
  LET t1 == rb_set_parent_color(t, tmp, gparent, RB_BLACK)
  IN  rb_set_parent_color(t1, gparent, parent(t1, gparent), RB_RED)

\* Case 1 - color flips (lines 220-224 and 271-275).  The loop goes on at
\* gparent.
\* Faulty variant: the uncle's word is written with parent as its parent.
InsertCase1_UncleUnderParent(t, prnt, gparent, tmp) ==
  LET t1 == rb_set_parent_color(t, tmp, prnt, RB_BLACK)
      t2 == rb_set_parent_color(t1, prnt, gparent, RB_BLACK)
  IN  rb_set_parent_color(t2, gparent, parent(t2, gparent), RB_RED)

InsertCase1(t, prnt, gparent, tmp) ==
  LET t1 == rb_set_parent_color(t, tmp, gparent, RB_BLACK)
      t2 == rb_set_parent_color(t1, prnt, gparent, RB_BLACK)
  IN  rb_set_parent_color(t2, gparent, parent(t2, gparent), RB_RED)

\* Case 2 - left rotate at parent (lines 242-247).
InsertCase2L(t, node, prnt) ==
  LET tmp == Left(t, node)
      t1 == SetRight(t, prnt, tmp)
      t2 == SetLeft(t1, node, prnt)
      t3 == IF tmp # NULL THEN rb_set_parent_color(t2, tmp, prnt, RB_BLACK) ELSE t2
      t4 == rb_set_parent_color(t3, prnt, node, RB_RED)
  IN  [t4 EXCEPT !.rot = @ + 1]

\* Faulty variant: the rotation of the mirror half, pasted into this half.
InsertCase3L_Mirrored(t, prnt, gparent, tmp) ==
  LET t1 == SetRight(t, gparent, tmp)
      t2 == SetLeft(t1, prnt, gparent)
      t3 == IF tmp # NULL THEN rb_set_parent_color(t2, tmp, gparent, RB_BLACK) ELSE t2
  IN  __rb_rotate_set_parents(t3, gparent, prnt, RB_RED)

\* Case 3 - right rotate at gparent (lines 261-265).
InsertCase3L(t, prnt, gparent, tmp) ==
  LET t1 == SetLeft(t, gparent, tmp)
      t2 == SetRight(t1, prnt, gparent)
      t3 == IF tmp # NULL THEN rb_set_parent_color(t2, tmp, gparent, RB_BLACK) ELSE t2
  IN  __rb_rotate_set_parents(t3, gparent, prnt, RB_RED)

\* Case 2 - right rotate at parent (lines 282-287).
InsertCase2R(t, node, prnt) ==
  LET tmp == Right(t, node)
      t1 == SetLeft(t, prnt, tmp)
      t2 == SetRight(t1, node, prnt)
      t3 == IF tmp # NULL THEN rb_set_parent_color(t2, tmp, prnt, RB_BLACK) ELSE t2
      t4 == rb_set_parent_color(t3, prnt, node, RB_RED)
  IN  [t4 EXCEPT !.rot = @ + 1]

\* Faulty variant: the grandparent is left black by the rotation.
InsertCase3R_GparentBlack(t, prnt, gparent, tmp) ==
  LET t1 == SetRight(t, gparent, tmp)
      t2 == SetLeft(t1, prnt, gparent)
      t3 == IF tmp # NULL THEN rb_set_parent_color(t2, tmp, gparent, RB_BLACK) ELSE t2
  IN  __rb_rotate_set_parents(t3, gparent, prnt, RB_BLACK)

\* Case 3 - left rotate at gparent (lines 293-297).
InsertCase3R(t, prnt, gparent, tmp) ==
  LET t1 == SetRight(t, gparent, tmp)
      t2 == SetLeft(t1, prnt, gparent)
      t3 == IF tmp # NULL THEN rb_set_parent_color(t2, tmp, gparent, RB_BLACK) ELSE t2
  IN  __rb_rotate_set_parents(t3, gparent, prnt, RB_RED)

\* Faulty variant: the node that reached the root is left red.
InsertAtRoot_StaysRed(t, node) == rb_set_parent_color(t, node, NULL, RB_RED)

\* Faulty variant: the node that reached the root is given itself as parent.
InsertAtRoot_SelfParent(t, node) == rb_set_parent_color(t, node, node, RB_BLACK)

\* if (!parent) { rb_set_parent_color(node, NULL, RB_BLACK); break; }
InsertAtRoot(t, node) == rb_set_parent_color(t, node, NULL, RB_BLACK)

\* The part of one iteration after gparent is read, parent == gparent->rb_left
\* (lines 206-266), when the uncle tmp is black or absent.
\* Faulty variant: the rotation at parent for an inside grandchild is left out.
InsertRotateL_SkipsCase2(t, node, prnt, gparent) ==
  InsertCase3L(t, prnt, gparent, Right(t, prnt))

InsertRotateL(t, node, prnt, gparent) ==
  LET inside == node = Right(t, prnt)
      t1 == IF inside THEN InsertCase2L(t, node, prnt) ELSE t
      p1 == IF inside THEN node ELSE prnt
  IN  InsertCase3L(t1, p1, gparent, Right(t1, p1))

\* Faulty variant: the rotations of this half are left out.
InsertRotateR_NoRotation(t, node, prnt, gparent) == t

\* The mirror (lines 279-298), parent == gparent->rb_right.
InsertRotateR(t, node, prnt, gparent) ==
  LET inside == node = Left(t, prnt)
      t1 == IF inside THEN InsertCase2R(t, node, prnt) ELSE t
      p1 == IF inside THEN node ELSE prnt
  IN  InsertCase3R(t1, p1, gparent, Left(t1, p1))

\* Faulty variant: the rotation cases go round the loop again instead of
\* breaking out of it.
InsertIteration_NoBreak(t, node, prnt) ==
  IF prnt = NULL
  THEN [t |-> InsertAtRoot(t, node), go |-> FALSE, node |-> node, prnt |-> prnt,
        gparent |-> NULL, uncle |-> NULL, case |-> "root"]
  ELSE IF rb_is_black(t, prnt)
  THEN [t |-> t, go |-> FALSE, node |-> node, prnt |-> prnt,
        gparent |-> NULL, uncle |-> NULL, case |-> "black_parent"]
  ELSE IF ~RedParentIsNode(t, prnt) \/ rb_red_parent(t, prnt) = NULL
  THEN [t |-> Fault(t, "null"), go |-> FALSE, node |-> node, prnt |-> prnt,
        gparent |-> NULL, uncle |-> NULL, case |-> "fault"]
  ELSE LET gparent == rb_red_parent(t, prnt)
           tmpR == Right(t, gparent)
           tmpL == Left(t, gparent)
       IN  IF prnt # tmpR
           THEN IF tmpR # NULL /\ rb_is_red(t, tmpR)
                THEN LET t1 == InsertCase1(t, prnt, gparent, tmpR)
                     IN  [t |-> [t1 EXCEPT !.flips = @ + 1], go |-> TRUE,
                          node |-> gparent, prnt |-> parent(t1, gparent),
                          gparent |-> gparent, uncle |-> tmpR, case |-> "flip"]
                ELSE [t |-> InsertRotateL(t, node, prnt, gparent), go |-> TRUE,
                      node |-> node,
                      prnt |-> IF node = Right(t, prnt) THEN node ELSE prnt,
                      gparent |-> gparent, uncle |-> tmpR, case |-> "rotate"]
           ELSE IF tmpL # NULL /\ rb_is_red(t, tmpL)
                THEN LET t1 == InsertCase1(t, prnt, gparent, tmpL)
                     IN  [t |-> [t1 EXCEPT !.flips = @ + 1], go |-> TRUE,
                          node |-> gparent, prnt |-> parent(t1, gparent),
                          gparent |-> gparent, uncle |-> tmpL, case |-> "flip"]
                ELSE [t |-> InsertRotateR(t, node, prnt, gparent), go |-> TRUE,
                      node |-> node,
                      prnt |-> IF node = Left(t, prnt) THEN node ELSE prnt,
                      gparent |-> gparent, uncle |-> tmpL, case |-> "rotate"]

\* One iteration of the while (true) of __rb_insert (lines 188-300), entered
\* with the red node under prnt.  The result records
\*   t          the tree after the iteration,
\*   go         whether the loop goes on (continue) or ends (break),
\*   node, prnt the node and parent the next iteration is entered with,
\*   gparent    the grandparent and
\*   uncle      the uncle (tmp of lines 205, 268) the iteration read,
\*   case       "root", "black_parent", "flip" (Case 1) or "rotate" (Case 3,
\*              after the Case 2 rotation at parent where needed).
InsertIteration(t, node, prnt) ==
  IF prnt = NULL
  THEN [t |-> InsertAtRoot(t, node), go |-> FALSE, node |-> node, prnt |-> prnt,
        gparent |-> NULL, uncle |-> NULL, case |-> "root"]
  ELSE IF rb_is_black(t, prnt)
  THEN [t |-> t, go |-> FALSE, node |-> node, prnt |-> prnt,
        gparent |-> NULL, uncle |-> NULL, case |-> "black_parent"]
  ELSE IF ~RedParentIsNode(t, prnt) \/ rb_red_parent(t, prnt) = NULL
  THEN [t |-> Fault(t, "null"), go |-> FALSE, node |-> node, prnt |-> prnt,
        gparent |-> NULL, uncle |-> NULL, case |-> "fault"]
  ELSE LET gparent == rb_red_parent(t, prnt)
           tmpR == Right(t, gparent)
           tmpL == Left(t, gparent)
       IN  IF prnt # tmpR
           THEN IF tmpR # NULL /\ rb_is_red(t, tmpR)
                THEN LET t1 == InsertCase1(t, prnt, gparent, tmpR)
                     IN  [t |-> [t1 EXCEPT !.flips = @ + 1], go |-> TRUE,
                          node |-> gparent, prnt |-> parent(t1, gparent),
                          gparent |-> gparent, uncle |-> tmpR, case |-> "flip"]
                ELSE [t |-> InsertRotateL(t, node, prnt, gparent), go |-> FALSE,
                      node |-> node, prnt |-> prnt, gparent |-> gparent, uncle |-> tmpR,
                      case |-> "rotate"]
           ELSE IF tmpL # NULL /\ rb_is_red(t, tmpL)
                THEN LET t1 == InsertCase1(t, prnt, gparent, tmpL)
                     IN  [t |-> [t1 EXCEPT !.flips = @ + 1], go |-> TRUE,
                          node |-> gparent, prnt |-> parent(t1, gparent),
                          gparent |-> gparent, uncle |-> tmpL, case |-> "flip"]
                ELSE [t |-> InsertRotateR(t, node, prnt, gparent), go |-> FALSE,
                      node |-> node, prnt |-> prnt, gparent |-> gparent, uncle |-> tmpL,
                      case |-> "rotate"]

RECURSIVE InsertLoop(_, _, _, _)
\* while (true) of __rb_insert, one iteration per unfolding (lines 188-300).
\* fuel bounds the unfolding: the loop running out of it is reported as the
\* fault "loop".
InsertLoop(t0, node, prnt, fuel) ==
  LET t == [t0 EXCEPT !.iter = @ + 1] IN
  IF t.fault # "none" THEN t
  ELSE IF fuel = 0 THEN Fault(t, "loop")
  ELSE LET i == InsertIteration(t, node, prnt)
       IN  IF i.go THEN InsertLoop(i.t, i.node, i.prnt, fuel - 1) ELSE i.t

RECURSIVE InsertVisits(_, _, _, _)
\* The (tree, node, parent) each iteration of the loop is entered with.
InsertVisits(t, node, prnt, fuel) ==
  IF fuel = 0 \/ t.fault # "none" THEN <<>>
  ELSE LET i == InsertIteration(t, node, prnt)
       IN  <<[t |-> t, node |-> node, prnt |-> prnt]>>
             \o (IF i.go THEN InsertVisits(i.t, i.node, i.prnt, fuel - 1) ELSE <<>>)

\* static inline void __rb_insert(RBNode *node, RBTree *root)
__rb_insert(t, node) ==
  IF ~RedParentIsNode(t, node) THEN Fault(t, "null")
  ELSE InsertLoop(t, node, rb_red_parent(t, node), MaxNodes + 1)

\* void RBTree::insert_color(RBNode *node)
insert_color(t, node) == __rb_insert(t, node)

\* ------------------------------------------------------------- __rb_erase
\* Each part returns the heap and the value of the local `rebalance`.

\* Faulty variant: the removal of a leaf asks for rebalancing whatever its
\* colour was.
EraseNoLeft_AlwaysRebalance(t, node) ==
  LET child == Right(t, node)
      pc == PC(t, node)
      prnt == __rb_parent(pc)
      t1 == __rb_change_child(t, node, child, prnt)
  IN  IF child # NULL
      THEN [t |-> SetPC(t1, child, pc), rebalance |-> NULL]
      ELSE [t |-> t1, rebalance |-> prnt]

\* Faulty variant: the removal of a black leaf asks for no rebalancing.
EraseNoLeft_NoRebalance(t, node) ==
  LET child == Right(t, node)
      pc == PC(t, node)
      prnt == __rb_parent(pc)
      t1 == __rb_change_child(t, node, child, prnt)
  IN  IF child # NULL
      THEN [t |-> SetPC(t1, child, pc), rebalance |-> NULL]
      ELSE [t |-> t1, rebalance |-> NULL]

\* if (!tmp): the node has no left child (lines 108-116).
EraseNoLeft(t, node) ==
  LET child == Right(t, node)
      pc == PC(t, node)
      prnt == __rb_parent(pc)
      t1 == __rb_change_child(t, node, child, prnt)
  IN  IF child # NULL
      THEN [t |-> SetPC(t1, child, pc), rebalance |-> NULL]
      ELSE [t |-> t1, rebalance |-> IF __rb_is_black(pc) THEN prnt ELSE NULL]

\* Faulty variant: the (absent) right child is put into the node's slot.
EraseNoRight_DropsChild(t, node) ==
  LET tmp == Left(t, node)
      pc == PC(t, node)
      t1 == SetPC(t, tmp, pc)
      prnt == __rb_parent(pc)
  IN  [t |-> __rb_change_child(t1, node, Right(t, node), prnt), rebalance |-> NULL]

\* Faulty variant: the child is given node's parent but keeps its own colour.
EraseNoRight_ChildKeepsColour(t, node) ==
  LET tmp == Left(t, node)
      pc == PC(t, node)
      t1 == SetPC(t, tmp, PackWord(ParentAddr(pc), rb_color(t, tmp)))
      prnt == __rb_parent(pc)
  IN  [t |-> __rb_change_child(t1, node, tmp, prnt), rebalance |-> NULL]

\* else if (!child): the only child is node->rb_left (lines 119-123).
EraseNoRight(t, node) ==
  LET tmp == Left(t, node)
      pc == PC(t, node)
      t1 == SetPC(t, tmp, pc)
      prnt == __rb_parent(pc)
  IN  [t |-> __rb_change_child(t1, node, tmp, prnt), rebalance |-> NULL]

RECURSIVE SuccessorWalk(_, _, _, _)
\* do { parent = successor; successor = tmp; tmp = tmp->rb_left; } while (tmp);
\* (lines 154-158), entered with tmp present.
SuccessorWalk(t, successor, tmp, fuel) ==
  IF fuel = 0 THEN [parent |-> NULL, successor |-> NULL, ok |-> FALSE]
  ELSE IF Left(t, tmp) # NULL THEN SuccessorWalk(t, tmp, Left(t, tmp), fuel - 1)
  ELSE [parent |-> successor, successor |-> tmp, ok |-> TRUE]

\* Faulty variant: the successor is left in its former parent's left slot.
EraseFindSuccessor_StaysLinked(t, node) ==
  LET child == Right(t, node)
      tmp == Left(t, child)
  IN  IF tmp = NULL
      THEN [t |-> t, parent |-> child, successor |-> child, child2 |-> Right(t, child)]
      ELSE LET w == SuccessorWalk(t, child, tmp, MaxNodes + 1)
               child2 == Right(t, w.successor)
               t2 == SetRight(t, w.successor, child)
               t3 == rb_set_parent(t2, child, w.successor)
           IN  [t |-> IF w.ok THEN t3 ELSE Fault(t, "loop"),
                parent |-> w.parent, successor |-> w.successor, child2 |-> child2]

\* Lines 125-162: find the successor and, in Case 3, take it out of its slot.
EraseFindSuccessor(t, node) ==
  LET child == Right(t, node)
      tmp == Left(t, child)
  IN  IF tmp = NULL
      THEN [t |-> t, parent |-> child, successor |-> child, child2 |-> Right(t, child)]
      ELSE LET w == SuccessorWalk(t, child, tmp, MaxNodes + 1)
               child2 == Right(t, w.successor)
               t1 == SetLeft(t, w.parent, child2)
               t2 == SetRight(t1, w.successor, child)
               t3 == rb_set_parent(t2, child, w.successor)
           IN  [t |-> IF w.ok THEN t3 ELSE Fault(t, "loop"),
                parent |-> w.parent, successor |-> w.successor, child2 |-> child2]

\* Faulty variant: with child2 absent the successor's former parent is
\* returned for rebalancing whatever the successor's colour was.
EraseSplice_AlwaysRebalance(t, node, prnt, successor, child2) ==
  LET tmp == Left(t, node)
      t1 == SetLeft(t, successor, tmp)
      t2 == rb_set_parent(t1, tmp, successor)
      pc == PC(t2, node)
      t3 == __rb_change_child(t2, node, successor, __rb_parent(pc))
  IN  IF child2 # NULL
      THEN [t |-> rb_set_parent_color(SetPC(t3, successor, pc), child2, prnt, RB_BLACK),
            rebalance |-> NULL]
      ELSE [t |-> SetPC(t3, successor, pc), rebalance |-> prnt]

\* Faulty variant: node's left child is handed to the successor without its
\* parent field being updated.
EraseSplice_LeftChildParent(t, node, prnt, successor, child2) ==
  LET tmp == Left(t, node)
      t2 == SetLeft(t, successor, tmp)
      pc == PC(t2, node)
      t3 == __rb_change_child(t2, node, successor, __rb_parent(pc))
  IN  IF child2 # NULL
      THEN [t |-> rb_set_parent_color(SetPC(t3, successor, pc), child2, prnt, RB_BLACK),
            rebalance |-> NULL]
      ELSE [t |-> SetPC(t3, successor, pc),
            rebalance |-> IF __rb_is_black(PC(t3, successor)) THEN prnt ELSE NULL]

\* Faulty variant: the successor takes node's parent but keeps its own colour.
EraseSplice_KeepsOwnColour(t, node, prnt, successor, child2) ==
  LET tmp == Left(t, node)
      t1 == SetLeft(t, successor, tmp)
      t2 == rb_set_parent(t1, tmp, successor)
      pc == PC(t2, node)
      t3 == __rb_change_child(t2, node, successor, __rb_parent(pc))
      own == PackWord(ParentAddr(pc), rb_color(t3, successor))
  IN  IF child2 # NULL
      THEN [t |-> rb_set_parent_color(SetPC(t3, successor, own), child2, prnt, RB_BLACK),
            rebalance |-> NULL]
      ELSE [t |-> SetPC(t3, successor, own),
            rebalance |-> IF __rb_is_black(PC(t3, successor)) THEN prnt ELSE NULL]

\* Faulty variant: with child2 absent and the successor black, the successor
\* itself is returned for rebalancing instead of its former parent.
EraseSplice_ReturnsSuccessor(t, node, prnt, successor, child2) ==
  LET tmp == Left(t, node)
      t1 == SetLeft(t, successor, tmp)
      t2 == rb_set_parent(t1, tmp, successor)
      pc == PC(t2, node)
      t3 == __rb_change_child(t2, node, successor, __rb_parent(pc))
  IN  IF child2 # NULL
      THEN [t |-> rb_set_parent_color(SetPC(t3, successor, pc), child2, prnt, RB_BLACK),
            rebalance |-> NULL]
      ELSE [t |-> SetPC(t3, successor, pc),
            rebalance |-> IF __rb_is_black(PC(t3, successor)) THEN successor ELSE NULL]

\* Lines 164-179: put the successor into the node's slot.
EraseSplice(t, node, prnt, successor, child2) ==
  LET tmp == Left(t, node)
      t1 == SetLeft(t, successor, tmp)
      t2 == rb_set_parent(t1, tmp, successor)
      pc == PC(t2, node)
      t3 == __rb_change_child(t2, node, successor, __rb_parent(pc))
  IN  IF child2 # NULL
      THEN [t |-> rb_set_parent_color(SetPC(t3, successor, pc), child2, prnt, RB_BLACK),
            rebalance |-> NULL]
      ELSE [t |-> SetPC(t3, successor, pc),
            rebalance |-> IF __rb_is_black(PC(t3, successor)) THEN prnt ELSE NULL]

\* else: the node has two children (lines 125-179).
EraseTwoChildren(t, node) ==
  LET f == EraseFindSuccessor(t, node)
  IN  IF f.t.fault # "none" THEN [t |-> f.t, rebalance |-> NULL]
      ELSE EraseSplice(f.t, node, f.parent, f.successor, f.child2)

\* The branch __rb_erase takes for node (lines 100, 117, 127, 139).
EraseKind(t, node) ==
  IF Left(t, node) = NULL THEN "no_left"
  ELSE IF Right(t, node) = NULL THEN "no_right"
  ELSE IF Left(t, Right(t, node)) = NULL THEN "successor_is_child"
  ELSE "successor_below"

\* The colour the unlink phase takes out of the tree: the colour in node's
\* pc (lines 108, 119) when node has at most one child, the colour in the
\* successor's pc2 (line 175) when it has two.
RemovedColor(t, node) ==
  IF Left(t, node) = NULL \/ Right(t, node) = NULL THEN rb_color(t, node)
  ELSE rb_color(t, EraseFindSuccessor(t, node).successor)

\* The child that takes the vacated slot: child (line 110), tmp (line 121)
\* or child2 (lines 138, 159); NULL when the slot is left empty.
SlotChild(t, node) ==
  IF Left(t, node) = NULL THEN Right(t, node)
  ELSE IF Right(t, node) = NULL THEN Left(t, node)
  ELSE EraseFindSuccessor(t, node).child2

\* Faulty variant: every node is unlinked as if it had no left child.
__rb_erase_IgnoresLeft(t, node) == EraseNoLeft(t, node)

\* static inline RBNode *__rb_erase(RBNode *node, RBTree *root)
__rb_erase(t, node) ==
  IF Left(t, node) = NULL THEN EraseNoLeft(t, node)
  ELSE IF Right(t, node) = NULL THEN EraseNoRight(t, node)
  ELSE EraseTwoChildren(t, node)

\* -------------------------------------------------------- __rb_erase_color

\* Case 1 - left rotate at parent (lines 331-336).  The new sibling is the
\* former sibling->rb_left.
EraseColorCase1L(t, prnt, sibling) ==
  LET tmp1 == Left(t, sibling)
      t1 == SetRight(t, prnt, tmp1)
      t2 == SetLeft(t1, sibling, prnt)
      t3 == rb_set_parent_color(t2, tmp1, prnt, RB_BLACK)
  IN  __rb_rotate_set_parents(t3, prnt, sibling, RB_RED)

\* Faulty variant: the mirrored half leaves parent black after the rotation.
EraseColorCase1R_ParentBlack(t, prnt, sibling) ==
  LET tmp1 == Right(t, sibling)
      t1 == SetLeft(t, prnt, tmp1)
      t2 == SetRight(t1, sibling, prnt)
      t3 == rb_set_parent_color(t2, tmp1, prnt, RB_BLACK)
  IN  __rb_rotate_set_parents(t3, prnt, sibling, RB_BLACK)

\* Case 1 - right rotate at parent (lines 414-419).
EraseColorCase1R(t, prnt, sibling) ==
  LET tmp1 == Right(t, sibling)
      t1 == SetLeft(t, prnt, tmp1)
      t2 == SetRight(t1, sibling, prnt)
      t3 == rb_set_parent_color(t2, tmp1, prnt, RB_BLACK)
  IN  __rb_rotate_set_parents(t3, prnt, sibling, RB_RED)

\* Faulty variant: a red parent is left red.
EraseColorCase2_ParentStaysRed(t, prnt, sibling) ==
  rb_set_parent_color(t, sibling, prnt, RB_RED)

\* Case 2 - sibling color flip (lines 357-360 and 426-429): the writes of the
\* case.  The loop goes on at parent when parent was black and has a parent.
EraseColorCase2(t, prnt, sibling) ==
  LET t1 == rb_set_parent_color(t, sibling, prnt, RB_RED)
  IN  IF rb_is_red(t1, prnt) THEN rb_set_black(t1, prnt) ELSE t1

\* Case 3 - right rotate at sibling (lines 381-388).
EraseColorCase3L(t, prnt, sibling, tmp2) ==
  LET tmp1 == Right(t, tmp2)
      t1 == SetLeft(t, sibling, tmp1)
      t2 == SetRight(t1, tmp2, sibling)
      t3 == SetRight(t2, prnt, tmp2)
      t4 == IF tmp1 # NULL THEN rb_set_parent_color(t3, tmp1, sibling, RB_BLACK) ELSE t3
  IN  [t4 EXCEPT !.rot = @ + 1]

\* Case 3 - rotate at sibling, mirrored (lines 439-446).
EraseColorCase3R(t, prnt, sibling, tmp2) ==
  LET tmp1 == Left(t, tmp2)
      t1 == SetRight(t, sibling, tmp1)
      t2 == SetLeft(t1, tmp2, sibling)
      t3 == SetLeft(t2, prnt, tmp2)
      t4 == IF tmp1 # NULL THEN rb_set_parent_color(t3, tmp1, sibling, RB_BLACK) ELSE t3
  IN  [t4 EXCEPT !.rot = @ + 1]

\* Faulty variant: the sibling's outer child is not painted black.
EraseColorCase4L_OuterStaysRed(t, prnt, sibling, tmp1) ==
  LET tmp2 == Left(t, sibling)
      t1 == SetRight(t, prnt, tmp2)
      t2 == SetLeft(t1, sibling, prnt)
      t4 == IF tmp2 # NULL THEN rb_set_parent(t2, tmp2, prnt) ELSE t2
  IN  __rb_rotate_set_parents(t4, prnt, sibling, RB_BLACK)

\* Case 4 - left rotate at parent + color flips (lines 402-408).
EraseColorCase4L(t, prnt, sibling, tmp1) ==
  LET tmp2 == Left(t, sibling)
      t1 == SetRight(t, prnt, tmp2)
      t2 == SetLeft(t1, sibling, prnt)
      t3 == rb_set_parent_color(t2, tmp1, sibling, RB_BLACK)
      t4 == IF tmp2 # NULL THEN rb_set_parent(t3, tmp2, prnt) ELSE t3
  IN  __rb_rotate_set_parents(t4, prnt, sibling, RB_BLACK)

\* Case 4 - rotate at parent + color flips, mirrored (lines 449-455).
EraseColorCase4R(t, prnt, sibling, tmp1) ==
  LET tmp2 == Right(t, sibling)
      t1 == SetLeft(t, prnt, tmp2)
      t2 == SetRight(t1, sibling, prnt)
      t3 == rb_set_parent_color(t2, tmp1, sibling, RB_BLACK)
      t4 == IF tmp2 # NULL THEN rb_set_parent(t3, tmp2, prnt) ELSE t3
  IN  __rb_rotate_set_parents(t4, prnt, sibling, RB_BLACK)

\* Faulty variant: after Case 4 the loop goes on at the node rotated into the
\* parent's place instead of breaking.
EraseColorBlackSiblingL_GoesOnAfterCase4(t, prnt, sibling) ==
  LET tmp1 == Right(t, sibling)
      tmp2 == Left(t, sibling)
  IN  IF tmp1 = NULL \/ rb_is_black(t, tmp1)
      THEN IF tmp2 = NULL \/ rb_is_black(t, tmp2)
           THEN [t |-> EraseColorCase2(t, prnt, sibling),
                 next |-> IF rb_is_red(t, prnt) THEN NULL
                          ELSE parent(EraseColorCase2(t, prnt, sibling), prnt),
                 case |-> 2]
           ELSE [t |-> EraseColorCase4L(EraseColorCase3L(t, prnt, sibling, tmp2),
                                        prnt, tmp2, sibling),
                 next |-> NULL, case |-> 3]
      ELSE [t |-> EraseColorCase4L(t, prnt, sibling, tmp1), next |-> sibling, case |-> 4]

\* What one iteration decides for a black sibling (Cases 2, 3 and 4), with
\* node == parent->rb_left (lines 338-409).  next is the parent the loop goes
\* on with, NULL when the iteration breaks.
EraseColorBlackSiblingL(t, prnt, sibling) ==
  LET tmp1 == Right(t, sibling)
      tmp2 == Left(t, sibling)
  IN  IF tmp1 = NULL \/ rb_is_black(t, tmp1)
      THEN IF tmp2 = NULL \/ rb_is_black(t, tmp2)
           THEN [t |-> EraseColorCase2(t, prnt, sibling),
                 next |-> IF rb_is_red(t, prnt) THEN NULL
                          ELSE parent(EraseColorCase2(t, prnt, sibling), prnt),
                 case |-> 2]
           ELSE [t |-> EraseColorCase4L(EraseColorCase3L(t, prnt, sibling, tmp2),
                                        prnt, tmp2, sibling),
                 next |-> NULL, case |-> 3]
      ELSE [t |-> EraseColorCase4L(t, prnt, sibling, tmp1), next |-> NULL, case |-> 4]

\* Faulty variant: Case 2 goes on with the loop without moving up to the
\* parent's parent.
EraseColorBlackSiblingR_StaysAtParent(t, prnt, sibling) ==
  LET tmp1 == Left(t, sibling)
      tmp2 == Right(t, sibling)
  IN  IF tmp1 = NULL \/ rb_is_black(t, tmp1)
      THEN IF tmp2 = NULL \/ rb_is_black(t, tmp2)
           THEN [t |-> EraseColorCase2(t, prnt, sibling),
                 next |-> IF rb_is_red(t, prnt) THEN NULL ELSE prnt,
                 case |-> 2]
           ELSE [t |-> EraseColorCase4R(EraseColorCase3R(t, prnt, sibling, tmp2),
                                        prnt, tmp2, sibling),
                 next |-> NULL, case |-> 3]
      ELSE [t |-> EraseColorCase4R(t, prnt, sibling, tmp1), next |-> NULL, case |-> 4]

\* The mirror (lines 421-456), node == parent->rb_right.
EraseColorBlackSiblingR(t, prnt, sibling) ==
  LET tmp1 == Left(t, sibling)
      tmp2 == Right(t, sibling)
  IN  IF tmp1 = NULL \/ rb_is_black(t, tmp1)
      THEN IF tmp2 = NULL \/ rb_is_black(t, tmp2)
           THEN [t |-> EraseColorCase2(t, prnt, sibling),
                 next |-> IF rb_is_red(t, prnt) THEN NULL
                          ELSE parent(EraseColorCase2(t, prnt, sibling), prnt),
                 case |-> 2]
           ELSE [t |-> EraseColorCase4R(EraseColorCase3R(t, prnt, sibling, tmp2),
                                        prnt, tmp2, sibling),
                 next |-> NULL, case |-> 3]
      ELSE [t |-> EraseColorCase4R(t, prnt, sibling, tmp1), next |-> NULL, case |-> 4]

\* One iteration of the while (true) of __rb_erase_color (lines 311-458),
\* entered with the deficient position node under prnt.  A sibling that is
\* read while NULL is the fault "null".  The result records
\*   sibling   the sibling read at lines 319 and 411,
\*   red       whether it was red (Case 1),
\*   black     the sibling Cases 2-4 work on (tmp1 of Case 1 when red),
\*   mid       the tree when Cases 2-4 start,
\*   case      the last case that ran (0 when no sibling could be read),
\*   t, next   the tree after the iteration and the parent the loop goes on
\*             with, NULL when it breaks.
EraseColorIteration(t, node, prnt) ==
  LET onLeft == node # Right(t, prnt)
      sibling == IF onLeft THEN Right(t, prnt) ELSE Left(t, prnt)
  IN  IF prnt = NULL \/ sibling = NULL
      THEN [t |-> Fault(t, "null"), next |-> NULL, sibling |-> sibling, red |-> FALSE,
            black |-> NULL, mid |-> t, case |-> 0]
      ELSE LET red == rb_is_red(t, sibling)
               t1 == IF ~red THEN t
                     ELSE IF onLeft THEN EraseColorCase1L(t, prnt, sibling)
                     ELSE EraseColorCase1R(t, prnt, sibling)
               sib1 == IF ~red THEN sibling
                       ELSE IF onLeft THEN Left(t, sibling) ELSE Right(t, sibling)
           IN  IF t1.fault # "none" \/ sib1 = NULL
               THEN [t |-> Fault(t1, "null"), next |-> NULL, sibling |-> sibling,
                     red |-> red, black |-> sib1, mid |-> t1, case |-> 1]
               ELSE LET d == IF onLeft THEN EraseColorBlackSiblingL(t1, prnt, sib1)
                             ELSE EraseColorBlackSiblingR(t1, prnt, sib1)
                    IN  [t |-> d.t, next |-> d.next, sibling |-> sibling, red |-> red,
                         black |-> sib1, mid |-> t1, case |-> d.case]

RECURSIVE EraseColorLoop(_, _, _, _)
\* while (true) of __rb_erase_color, one iteration per unfolding (lines
\* 311-458).
EraseColorLoop(t0, node, prnt, fuel) ==
  LET t == [t0 EXCEPT !.iter = @ + 1]
  IN  IF t.fault # "none" THEN t
      ELSE IF fuel = 0 THEN Fault(t, "loop")
      ELSE LET i == EraseColorIteration(t, node, prnt)
           IN  IF i.next # NULL
               THEN EraseColorLoop([i.t EXCEPT !.flips = @ + 1], prnt, i.next, fuel - 1)
               ELSE i.t

RECURSIVE EraseColorVisits(_, _, _, _)
\* The (tree, node, parent) each iteration of the loop is entered with.
EraseColorVisits(t, node, prnt, fuel) ==
  IF fuel = 0 \/ t.fault # "none" THEN <<>>
  ELSE LET i == EraseColorIteration(t, node, prnt)
       IN  <<[t |-> t, node |-> node, prnt |-> prnt]>>
             \o (IF i.next # NULL THEN EraseColorVisits(i.t, prnt, i.next, fuel - 1)
                 ELSE <<>>)

\* The iterations the colour fixup of erase(node) on t goes through.
EraseVisits(t, node) ==
  LET e == __rb_erase(t, node)
  IN  IF e.rebalance = NULL THEN <<>>
      ELSE EraseColorVisits(e.t, NULL, e.rebalance, MaxNodes + 1)

\* static inline void __rb_erase_color(RBNode *parent, RBTree *root)
__rb_erase_color(t, prnt) == EraseColorLoop(t, NULL, prnt, MaxNodes + 1)

\* void RBTree::erase(RBNode *node)
erase(t, node) ==
  LET e == __rb_erase(t, node)
  IN  IF e.rebalance # NULL THEN __rb_erase_color(e.t, e.rebalance) ELSE e.t

\* Faulty variant: the parent of victim's right child is not updated.
replace_RightChildParent(t, victim, n) ==
  LET prnt == parent(t, victim)
      t1 == __rb_change_child(t, victim, n, prnt)
      t2 == IF Left(t1, victim) # NULL THEN rb_set_parent(t1, Left(t1, victim), n) ELSE t1
  IN  [t2 EXCEPT !.l[n] = t2.l[victim], !.r[n] = t2.r[victim], !.pc[n] = t2.pc[victim]]

\* Faulty variant: the victim's word is cleared once it has been copied.
replace_ClearsVictim(t, victim, n) ==
  LET prnt == parent(t, victim)
      t1 == __rb_change_child(t, victim, n, prnt)
      t2 == IF Left(t1, victim) # NULL THEN rb_set_parent(t1, Left(t1, victim), n) ELSE t1
      t3 == IF Right(t2, victim) # NULL THEN rb_set_parent(t2, Right(t2, victim), n) ELSE t2
  IN  [t3 EXCEPT !.l[n] = t3.l[victim], !.r[n] = t3.r[victim], !.pc[n] = t3.pc[victim],
                 !.pc[victim] = 0]

\* void RBTree::replace(RBNode *victim, RBNode *n)
replace(t, victim, n) ==
  LET prnt == parent(t, victim)
      t1 == __rb_change_child(t, victim, n, prnt)
      t2 == IF Left(t1, victim) # NULL THEN rb_set_parent(t1, Left(t1, victim), n) ELSE t1
      t3 == IF Right(t2, victim) # NULL THEN rb_set_parent(t2, Right(t2, victim), n) ELSE t2
  IN  [t3 EXCEPT !.l[n] = t3.l[victim], !.r[n] = t3.r[victim], !.pc[n] = t3.pc[victim]]

\* ------------------------------------------------------------ the caller

\* link_node(new, p, side): new becomes a red leaf under p, or the root.
link_node(t, n, p, side) ==
  LET t1 == [t EXCEPT !.l[n] = NULL, !.r[n] = NULL, !.pc[n] = BitOr(Addr(p), RB_RED)]
  IN  IF p = NULL THEN [t1 EXCEPT !.root = n]
      ELSE IF side = "left" THEN SetLeft(t1, p, n) ELSE SetRight(t1, p, n)

RECURSIVE Descend(_, _, _, _, _, _)
\* The caller's binary-search descent for key k: the future parent and side.
Descend(t, cur, prev, side, k, fuel) ==
  IF cur = NULL \/ fuel = 0 THEN [parent |-> prev, side |-> side]
  ELSE IF k < cur THEN Descend(t, Left(t, cur), cur, "left", k, fuel - 1)
  ELSE Descend(t, Right(t, cur), cur, "right", k, fuel - 1)

RECURSIVE Subtree(_, _, _)
\* The nodes reachable from n through child references.
Subtree(t, n, fuel) ==
  IF n = NULL \/ fuel = 0 THEN {}
  ELSE {n} \cup Subtree(t, Left(t, n), fuel - 1) \cup Subtree(t, Right(t, n), fuel - 1)

TreeNodes(t) == Subtree(t, t.root, MaxNodes)

RECURSIVE InOrderFrom(_, _, _)
\* In-order traversal of the subtree of n.
InOrderFrom(t, n, fuel) ==
  IF n = NULL \/ fuel = 0 THEN <<>>
  ELSE InOrderFrom(t, Left(t, n), fuel - 1) \o <<n>> \o InOrderFrom(t, Right(t, n), fuel - 1)

InOrder(t) == InOrderFrom(t, t.root, MaxNodes)

RECURSIVE Leftmost(_, _, _)
\* The last node on the chain of left children that starts at n.
Leftmost(t, n, fuel) ==
  IF fuel = 0 \/ Left(t, n) = NULL THEN n ELSE Leftmost(t, Left(t, n), fuel - 1)

\* first(tree): the leftmost node, or absent.
first(t) == IF t.root = NULL THEN NULL ELSE Leftmost(t, t.root, MaxNodes)

RECURSIVE Ascend(_, _, _)
\* Go up from n until arriving from a left child; absent past the root.
Ascend(t, n, fuel) ==
  LET p == parent(t, n)
  IN  IF p = NULL \/ fuel = 0 THEN NULL
      ELSE IF Left(t, p) = n THEN p
      ELSE Ascend(t, p, fuel - 1)

\* next(n): the in-order successor of n, or absent.
next(t, n) ==
  IF Right(t, n) # NULL THEN Leftmost(t, Right(t, n), MaxNodes)
  ELSE Ascend(t, n, MaxNodes)

RECURSIVE Walk(_, _, _)
\* The nodes visited from n on by applying next until it returns absent;
\* a walk longer than fuel is cut off with an absent entry.
Walk(t, n, fuel) ==
  IF n = NULL THEN <<>>
  ELSE IF fuel = 0 THEN <<NULL>>
  ELSE <<n>> \o Walk(t, next(t, n), fuel - 1)

\* The nodes visited by first and repeated next.
Traversal(t) == Walk(t, first(t), MaxNodes + 1)

\* The left-right mirror image of t: same nodes, colours and parents, the
\* two child fields of every node exchanged.
Mirror(t) == [t EXCEPT !.l = t.r, !.r = t.l]

MirrorSide(side) == IF side = "left" THEN "right" ELSE "left"

\* Whether, in the tree e made from t by taking out the node n that had two
\* children, the in-order successor of n stands in n's place and the
\* successor's former right child in the successor's former place.
SuccessorSpliced(t, e, n) ==
  LET s == Leftmost(t, Right(t, n), MaxNodes)
      c == Right(t, s)
      sp == parent(t, s)
      np == parent(t, n)
  IN  /\ parent(e, s) = np
      /\ rb_color(e, s) = rb_color(t, n)
      /\ Left(e, s) = Left(t, n)
      /\ IF np = NULL THEN e.root = s
         ELSE IF Left(t, np) = n THEN Left(e, np) = s
         ELSE Right(e, np) = s
      /\ s # Right(t, n) =>
           /\ Left(e, sp) = c
           /\ Right(e, s) = Right(t, n)
      /\ s = Right(t, n) =>
           /\ Right(e, s) = c
           /\ Subtree(e, Right(e, s), MaxNodes) = Subtree(t, c, MaxNodes)

\* The only child of n, NULL when n has no child or two.
OnlyChild(t, n) ==
  IF Left(t, n) = NULL THEN Right(t, n)
  ELSE IF Right(t, n) = NULL THEN Left(t, n)
  ELSE NULL

\* The parent of the slot that erasing n vacates, in the tree after the
\* unlinking: n's parent when n has at most one child; otherwise the parent
\* of the slot the in-order successor leaves, which is the successor itself
\* when it was n's right child.
VacatedParent(t, n) ==
  LET s == Leftmost(t, Right(t, n), MaxNodes)
  IN  IF Left(t, n) = NULL \/ Right(t, n) = NULL THEN parent(t, n)
      ELSE IF s = Right(t, n) THEN s
      ELSE parent(t, s)

\* Whether the slot that erasing n vacates is empty in e, the tree after the
\* unlinking of n from t.
VacatedSlotEmpty(t, e, n) ==
  LET s == Leftmost(t, Right(t, n), MaxNodes)
      p == VacatedParent(t, n)
  IN  IF Left(t, n) = NULL \/ Right(t, n) = NULL
      THEN IF p = NULL THEN e.root = NULL
           ELSE IF Left(t, p) = n THEN Left(e, p) = NULL
           ELSE Right(e, p) = NULL
      ELSE IF s = Right(t, n) THEN Right(e, p) = NULL
      ELSE Left(e, p) = NULL

\* Whether the detached node n may stand in for victim: its key lies strictly
\* between the keys of victim's in-order neighbours.
Substitutes(t, victim, n) ==
  LET s == InOrder(t)
  IN  \E i \in 1..Len(s) :
        /\ s[i] = victim
        /\ i > 1 => s[i - 1] < n
        /\ i < Len(s) => n < s[i + 1]

\* The caller owns the node objects and destroys a node once it is out of the
\* tree: the fields of a detached node are those of a node not yet linked.
\* (No operation reads them: link_node and replace overwrite all three.)
Release(t, n) == [t EXCEPT !.l[n] = NULL, !.r[n] = NULL, !.pc[n] = 0]

\* ------------------------------------------------------------ the actions

\* AsyncMessenger::AsyncMessenger: need_addr(true), did_bind(false),
\* stopped(true); started is false until start().  No thread is in a call.
MessengerNew ==
  [lock |-> "free", started |-> FALSE, stopped |-> TRUE, did_bind |-> FALSE,
   pc |-> [th \in {"starter", "waiter", "stopper"} |-> "idle"],
   waitAfterStart |-> FALSE, shutAfterStart |-> FALSE]

BindingIdle == [pc |-> "idle"]

LearningIdle == [pc |-> "idle"]

ReapingIdle == [pc |-> "idle"]

KeysIdle == [pc |-> "idle"]

ExtIdle ==
  /\ messenger = MessengerNew
  /\ binding = BindingIdle
  /\ learning = LearningIdle
  /\ reaping = ReapingIdle
  /\ keys = KeysIdle

\* The empty tree, before any call.
TreeIdle ==
  /\ rb_left = [n \in Nodes |-> NULL]
  /\ rb_right = [n \in Nodes |-> NULL]
  /\ rb_parent_color = [n \in Nodes |-> 0]
  /\ rb_node = NULL
  /\ fault = "none"
  /\ ins = 0
  /\ ers = 0
  /\ asc = 0
  /\ last = [op |-> "none", node |-> NULL, other |-> NULL, rot |-> 0, iter |-> 0,
             flips |-> 0, kind |-> "none", was |-> 0,
             removed |-> "none", slot |-> NULL]
  /\ word = 0
  /\ stored = [op |-> "none", ref |-> 0, color |-> RB_RED]

Init ==
  /\ rb_left = [n \in Nodes |-> NULL]
  /\ rb_right = [n \in Nodes |-> NULL]
  /\ rb_parent_color = [n \in Nodes |-> 0]
  /\ rb_node = NULL
  /\ fault = "none"
  /\ ins = 0
  /\ ers = 0
  /\ asc = 0
  /\ last = [op |-> "none", node |-> NULL, other |-> NULL, rot |-> 0, iter |-> 0,
             flips |-> 0, kind |-> "none", was |-> 0,
             removed |-> "none", slot |-> NULL]
  /\ word = 0
  /\ stored = [op |-> "none", ref |-> 0, color |-> RB_RED]
  /\ ExtIdle

Store(t) ==
  /\ rb_left' = t.l
  /\ rb_right' = t.r
  /\ rb_parent_color' = t.pc
  /\ rb_node' = t.root
  /\ fault' = t.fault

\* link_node at the place the descent selects, then insert_color.
Insert(n) ==
  /\ fault = "none"
  /\ ins < MaxIns
  /\ n \notin TreeNodes(Heap)
  /\ LET d == Descend(Heap, rb_node, NULL, "left", n, MaxNodes)
         t == insert_color(link_node(Heap, n, d.parent, d.side), n)
     IN  /\ Store(t)
         /\ last' = [op |-> "insert", node |-> n, other |-> d.parent,
                     rot |-> t.rot, iter |-> t.iter, flips |-> t.flips, kind |-> "none", was |-> asc,
                     removed |-> "none", slot |-> NULL]
  /\ ins' = ins + 1
  /\ ers' = ers
  /\ UNCHANGED <<word, stored, extVars>>
  /\ asc' = IF asc >= 0 /\ n = asc + 1 THEN asc + 1 ELSE -1

Erase(n) ==
  /\ fault = "none"
  /\ n \in TreeNodes(Heap)
  /\ LET t == erase(Heap, n)
     IN  /\ Store(Release(t, n))
         /\ last' = [op |-> "erase", node |-> n, other |-> __rb_erase(Heap, n).rebalance,
                     rot |-> t.rot, iter |-> t.iter, flips |-> t.flips, kind |-> EraseKind(Heap, n),
                     was |-> asc,
                     removed |-> IF RemovedColor(Heap, n) = RB_BLACK THEN "black" ELSE "red",
                     slot |-> SlotChild(Heap, n)]
  /\ ins' = ins
  /\ ers' = ers + 1
  /\ UNCHANGED <<word, stored, extVars>>
  /\ asc' = -1

Replace(victim, n) ==
  /\ fault = "none"
  /\ victim \in TreeNodes(Heap)
  /\ n \notin TreeNodes(Heap)
  /\ Substitutes(Heap, victim, n)
  /\ LET t == replace(Heap, victim, n)
     IN  /\ Store(Release(t, victim))
         /\ last' = [op |-> "replace", node |-> victim, other |-> n,
                     rot |-> t.rot, iter |-> t.iter, flips |-> t.flips, kind |-> "none", was |-> asc,
                     removed |-> "none", slot |-> NULL]
  /\ UNCHANGED <<ins, ers, word, stored, extVars>>
  /\ asc' = -1

Next ==
  \/ \E n \in Nodes : Insert(n)
  \/ \E n \in Nodes : Erase(n)
  \/ \E victim \in Nodes, n \in Nodes : Replace(victim, n)

Spec == Init /\ [][Next]_vars

\* ------------------------------------------------- a tree of three levels
\* The calls of Spec start from the empty tree and, with MaxNodes node
\* objects, never build a black-height above 2.  SpecDeep makes the same
\* calls on a tree of black-height 3 the program does build: twelve
\* ascending insertions followed by erasing the 1st, 2nd, 3rd, 4th and 8th
\* node leave seven nodes, all black, in a perfect tree.  Its nodes are
\* numbered 1..7 here in key order; ins and ers are set to the net count.

DeepLeft == <<NULL, 1, NULL, 2, NULL, 5, NULL>>
DeepRight == <<NULL, 3, NULL, 6, NULL, 7, NULL>>
DeepParent == <<2, 4, 2, NULL, 6, 4, 6>>

InitDeep ==
  /\ rb_left = [n \in Nodes |-> IF n <= Len(DeepLeft) THEN DeepLeft[n] ELSE NULL]
  /\ rb_right = [n \in Nodes |-> IF n <= Len(DeepRight) THEN DeepRight[n] ELSE NULL]
  /\ rb_parent_color = [n \in Nodes |-> IF n <= Len(DeepParent)
                                        THEN PackWord(Addr(DeepParent[n]), RB_BLACK)
                                        ELSE 0]
  /\ rb_node = 4
  /\ fault = "none"
  /\ ins = Len(DeepLeft)
  /\ ers = 0
  /\ asc = -1
  /\ last = [op |-> "none", node |-> NULL, other |-> NULL, rot |-> 0, iter |-> 0,
             flips |-> 0, kind |-> "none", was |-> 0,
             removed |-> "none", slot |-> NULL]
  /\ word = 0
  /\ stored = [op |-> "none", ref |-> 0, color |-> RB_RED]
  /\ ExtIdle

SpecDeep == InitDeep /\ [][Next]_vars

\* ------------------------------------------- the packed word on its own
\* The three writers of __rb_parent_color applied to raw addresses, aligned
\* or not, with the tree left alone.

Addrs == 0..MaxAddr

treeVars == <<rb_left, rb_right, rb_parent_color, rb_node, fault, ins, ers, asc, last>>

\* rb_set_parent_color(rb, p, color) with p at address a.
WordSetParentColor(a, color) ==
  /\ word' = PackWord(a, color)
  /\ stored' = [op |-> "rb_set_parent_color", ref |-> a, color |-> color]
  /\ UNCHANGED <<treeVars, extVars>>

\* rb_set_parent(rb, p) with p at address a: the colour is to stay.
WordSetParent(a) ==
  /\ word' = SetParentWord(word, a)
  /\ stored' = [op |-> "rb_set_parent", ref |-> a, color |-> __rb_color(word)]
  /\ UNCHANGED <<treeVars, extVars>>

\* rb_set_black(rb): the parent is to stay.
WordSetBlack ==
  /\ word' = SetBlackWord(word)
  /\ stored' = [op |-> "rb_set_black", ref |-> ParentAddr(word), color |-> RB_BLACK]
  /\ UNCHANGED <<treeVars, extVars>>

NextWord ==
  \/ \E a \in Addrs, color \in {RB_RED, RB_BLACK} : WordSetParentColor(a, color)
  \/ \E a \in Addrs : WordSetParent(a)
  \/ WordSetBlack

SpecWord == Init /\ [][NextWord]_vars

\* ------------------------------------------------------- tree predicates

Black(t, n) == n = NULL \/ rb_is_black(t, n)

RECURSIVE PathBlackCounts(_, _, _)
\* The numbers of black nodes on the paths from n down to an absent child.
PathBlackCounts(t, n, fuel) ==
  IF n = NULL \/ fuel = 0 THEN {0}
  ELSE LET below == PathBlackCounts(t, Left(t, n), fuel - 1)
                    \cup PathBlackCounts(t, Right(t, n), fuel - 1)
       IN  {c + (IF rb_is_black(t, n) THEN 1 ELSE 0) : c \in below}

\* Invariant 1 of the tree t.
RootIsBlack(t) == t.root # NULL => rb_is_black(t, t.root)

\* Invariant 2 of the tree t.
NoRedRed(t) ==
  \A n \in TreeNodes(t) :
    rb_is_red(t, n) => Black(t, Left(t, n)) /\ Black(t, Right(t, n))

\* Invariant 3 of the tree t.
SameBlackHeight(t) == Cardinality(PathBlackCounts(t, t.root, MaxNodes)) = 1

\* Invariant 4 of the tree t.
ParentsConsistent(t) ==
  /\ t.root # NULL => parent(t, t.root) = NULL
  /\ \A n \in TreeNodes(t) \ {t.root} :
       LET p == parent(t, n)
       IN  /\ p # NULL
           /\ p \in TreeNodes(t)
           /\ (Left(t, p) = n) # (Right(t, p) = n)
           /\ \A q \in TreeNodes(t) : (Left(t, q) = n \/ Right(t, q) = n) => q = p

RECURSIVE Height(_, _, _)
\* The number of nodes on the longest path from n down to an absent child.
Height(t, n, fuel) ==
  IF n = NULL \/ fuel = 0 THEN 0
  ELSE LET hl == Height(t, Left(t, n), fuel - 1)
           hr == Height(t, Right(t, n), fuel - 1)
       IN  1 + (IF hl > hr THEN hl ELSE hr)

RECURSIVE Pow2(_)
Pow2(k) == IF k = 0 THEN 1 ELSE 2 * Pow2(k - 1)

RECURSIVE Depth(_, _, _)
\* The number of nodes on the way from n up to the root, n included.
Depth(t, n, fuel) ==
  IF n = NULL \/ fuel = 0 THEN 0 ELSE 1 + Depth(t, parent(t, n), fuel - 1)

IsSorted(s) == \A i \in 1..(Len(s) - 1) : s[i] < s[i + 1]

\* ----------------------------- AsyncMessenger: start, wait and shutdown
\* src/src/msg/async/AsyncMessenger.cc.  Three threads, each making one call:
\* "starter" calls start(), "waiter" calls wait(), "stopper" calls shutdown().
\* A step is the code between two points where another thread can run.  The
\* read of stopped in wait() races with the unlocked write in shutdown(): the
\* read returns the value before or after the write, which is the order of
\* the two steps.

Threads == {"starter", "waiter", "stopper"}

At(th, label) == messenger.pc[th] = label

Goto(th, label) == [messenger.pc EXCEPT ![th] = label]

MessengerStep(m) ==
  /\ messenger' = m
  /\ UNCHANGED <<treeAll, binding, learning, reaping, keys>>

\* start(): lock.Lock()
StartLock ==
  /\ At("starter", "idle") /\ messenger.lock = "free"
  /\ MessengerStep([messenger EXCEPT !.lock = "starter", !.pc = Goto("starter", "locked")])

\* start(): assert(!started); started = true; stopped = false;
StartSet ==
  /\ At("starter", "locked") /\ ~messenger.started
  /\ MessengerStep([messenger EXCEPT !.started = TRUE, !.stopped = FALSE,
                                     !.pc = Goto("starter", "set")])

\* start(): lock.Unlock(); return 0;
StartUnlock ==
  /\ At("starter", "set")
  /\ MessengerStep([messenger EXCEPT !.lock = "free", !.pc = Goto("starter", "done")])

\* wait(): lock.Lock()
WaitLock ==
  /\ At("waiter", "idle") /\ messenger.lock = "free"
  /\ MessengerStep([messenger EXCEPT !.lock = "waiter", !.pc = Goto("waiter", "locked"),
                                     !.waitAfterStart = At("starter", "done")])

\* wait(): if (!started) { lock.Unlock(); return; }
WaitCheckStarted ==
  /\ At("waiter", "locked")
  /\ MessengerStep(IF ~messenger.started
                   THEN [messenger EXCEPT !.lock = "free", !.pc = Goto("waiter", "done")]
                   ELSE [messenger EXCEPT !.pc = Goto("waiter", "started")])

\* wait(): if (!stopped) stop_cond.Wait(lock);   Wait releases the lock and
\* blocks the thread.
WaitCheckStopped ==
  /\ At("waiter", "started")
  /\ MessengerStep(IF ~messenger.stopped
                   THEN [messenger EXCEPT !.lock = "free", !.pc = Goto("waiter", "asleep")]
                   ELSE [messenger EXCEPT !.pc = Goto("waiter", "awake")])

\* A wake-up of the condition variable that no Signal caused.
WaitSpurious ==
  /\ At("waiter", "asleep")
  /\ MessengerStep([messenger EXCEPT !.pc = Goto("waiter", "woken")])

\* stop_cond.Wait(lock) returns: the woken thread has the lock again.
WaitReacquire ==
  /\ At("waiter", "woken") /\ messenger.lock = "free"
  /\ MessengerStep([messenger EXCEPT !.lock = "waiter", !.pc = Goto("waiter", "awake")])

\* wait(): lock.Unlock();
WaitUnlock ==
  /\ At("waiter", "awake")
  /\ MessengerStep([messenger EXCEPT !.lock = "free", !.pc = Goto("waiter", "cleanup")])

\* wait(): p->stop() for every processor; did_bind = false; mark_down_all(),
\* which takes and releases the lock; started = false.
WaitCleanup ==
  /\ At("waiter", "cleanup") /\ messenger.lock = "free"
  /\ MessengerStep([messenger EXCEPT !.did_bind = FALSE, !.started = FALSE,
                                     !.pc = Goto("waiter", "done")])

\* shutdown(): p->stop() for every processor; mark_down_all(), which takes
\* and releases the lock; local_connection->set_priv(NULL); stack->barrier();
ShutdownMarkDown ==
  /\ At("stopper", "idle") /\ messenger.lock = "free"
  /\ MessengerStep([messenger EXCEPT !.pc = Goto("stopper", "marked"),
                                     !.shutAfterStart = At("starter", "done")])

\* shutdown(): lock.Lock();
ShutdownLock ==
  /\ At("stopper", "marked") /\ messenger.lock = "free"
  /\ MessengerStep([messenger EXCEPT !.lock = "stopper", !.pc = Goto("stopper", "locked")])

\* shutdown(): stop_cond.Signal();   wakes a thread blocked in Wait, if any.
ShutdownSignal ==
  /\ At("stopper", "locked")
  /\ MessengerStep([messenger EXCEPT
       !.pc = [Goto("stopper", "signalled") EXCEPT
                 !["waiter"] = IF @ = "asleep" THEN "woken" ELSE @]])

\* shutdown(): lock.Unlock();
ShutdownUnlock ==
  /\ At("stopper", "signalled")
  /\ MessengerStep([messenger EXCEPT !.lock = "free", !.pc = Goto("stopper", "unlocked")])

\* shutdown(): stopped = true; return 0;   written without the lock.
ShutdownSetStopped ==
  /\ At("stopper", "unlocked")
  /\ MessengerStep([messenger EXCEPT !.stopped = TRUE, !.pc = Goto("stopper", "done")])

\* Nothing has been called yet on any component.
InitIdle == TreeIdle /\ ExtIdle

NextWait ==
  \/ StartLock
  \/ StartSet
  \/ StartUnlock
  \/ WaitLock
  \/ WaitCheckStarted
  \/ WaitCheckStopped
  \/ WaitSpurious
  \/ WaitReacquire
  \/ WaitUnlock
  \/ WaitCleanup
  \/ ShutdownMarkDown
  \/ ShutdownLock
  \/ ShutdownSignal
  \/ ShutdownUnlock
  \/ ShutdownSetStopped

\* A thread that can take its next step takes it; when a thread makes its call
\* is up to that thread, and a spurious wake-up is never owed.
WaitFairness ==
  /\ WF_vars(StartLock) /\ WF_vars(StartSet) /\ WF_vars(StartUnlock)
  /\ WF_vars(WaitCheckStarted) /\ WF_vars(WaitCheckStopped)
  /\ WF_vars(WaitReacquire) /\ WF_vars(WaitUnlock) /\ WF_vars(WaitCleanup)
  /\ WF_vars(ShutdownLock) /\ WF_vars(ShutdownSignal) /\ WF_vars(ShutdownUnlock)
  /\ WF_vars(ShutdownSetStopped)

SpecWait == InitIdle /\ [][NextWait]_vars /\ WaitFairness

\* ------------------------------------------------------- Processor::bind
\* src/src/msg/async/AsyncMessenger.cc, lines 76-166.  One call, step by
\* step.  A listen request is run by the worker's thread (C_listen_forward,
\* lines 48-74) and answers 0 or a negative error.  errno is the calling
\* thread's: the worker's failure does not set it, so that the value read at
\* line 139 is any value the thread was left with, 0 included.

Ports == 1..MaxPort

ListenResults == {0, -EADDRINUSE}

Errnos == {0, EADDRINUSE}

BindingStep(b) ==
  /\ binding' = b
  /\ UNCHANGED <<treeAll, messenger, learning, reaping, keys>>

\* The call: bind_addr with port `fixed` (0 when none), ms_bind_retry_count,
\* ms_bind_port_min and ms_bind_port_max, avoid_ports.   int r = -1;
BindCall(count, fixed, lo, hi, avoid) ==
  /\ binding.pc = "idle"
  /\ BindingStep([pc |-> "round", count |-> count, lo |-> lo, hi |-> hi, avoid |-> avoid,
                  i |-> 0, r |-> -1, port |-> fixed, cur |-> 0, listens |-> {}, ret |-> 0])

\* for (int i = 0; i < conf->ms_bind_retry_count; i++) { if (listen_addr.get_port())
BindRound ==
  /\ binding.pc = "round"
  /\ BindingStep(IF binding.i >= binding.count THEN [binding EXCEPT !.pc = "after"]
                 ELSE IF binding.port # 0 THEN [binding EXCEPT !.pc = "listen"]
                 ELSE [binding EXCEPT !.pc = "range", !.cur = binding.lo])

\* Lines 113-120: the listen on the given port; if (r < 0) continue;
\* otherwise line 146: if (r == 0) break.
BindListenFixed(res) ==
  /\ binding.pc = "listen"
  /\ BindingStep([binding EXCEPT
       !.r = res,
       !.listens = @ \cup {[port |-> binding.port, res |-> res]},
       !.i = IF res < 0 THEN @ + 1 ELSE @,
       !.pc = IF res < 0 THEN "round" ELSE "after"])

\* Lines 123-125: if (avoid_ports.count(port)) continue;
BindRangeSkip ==
  /\ binding.pc = "range" /\ binding.cur <= binding.hi
  /\ binding.cur \in binding.avoid
  /\ BindingStep([binding EXCEPT !.cur = @ + 1])

\* Lines 127-132: listen_addr.set_port(port); the listen; if (r == 0) break;
BindRangeListen(res) ==
  /\ binding.pc = "range" /\ binding.cur <= binding.hi
  /\ binding.cur \notin binding.avoid
  /\ BindingStep([binding EXCEPT
       !.port = binding.cur,
       !.r = res,
       !.listens = @ \cup {[port |-> binding.cur, res |-> res]},
       !.cur = IF res = 0 THEN @ ELSE @ + 1,
       !.pc = IF res = 0 THEN "range_end" ELSE "range"])

\* Lines 134-147, after the port loop: if (r < 0) { r = -errno;
\* listen_addr.set_port(0); continue; }  otherwise if (r == 0) break;
BindRangeEnd(e) ==
  /\ \/ binding.pc = "range_end"
     \/ binding.pc = "range" /\ binding.cur > binding.hi
  /\ BindingStep(IF binding.r < 0
                 THEN [binding EXCEPT !.r = -e, !.port = 0, !.i = @ + 1, !.pc = "round"]
                 ELSE IF binding.r = 0 THEN [binding EXCEPT !.pc = "after"]
                 ELSE [binding EXCEPT !.i = @ + 1, !.pc = "round"])

\* Lines 149-165: if (r < 0) return r; ... return 0;
BindReturn ==
  /\ binding.pc = "after"
  /\ BindingStep([binding EXCEPT !.ret = IF binding.r < 0 THEN binding.r ELSE 0,
                                 !.pc = "done"])

NextBind ==
  \/ \E count \in 0..MaxRetry, fixed \in {0} \cup Ports, lo \in Ports, hi \in 0..MaxPort,
        avoid \in SUBSET Ports : BindCall(count, fixed, lo, hi, avoid)
  \/ BindRound
  \/ \E res \in ListenResults : BindListenFixed(res)
  \/ BindRangeSkip
  \/ \E res \in ListenResults : BindRangeListen(res)
  \/ \E e \in Errnos : BindRangeEnd(e)
  \/ BindReturn

SpecBind == InitIdle /\ [][NextBind]_vars

\* ------------------------------------------ AsyncMessenger::learned_addr
\* src/src/msg/async/AsyncMessenger.cc, lines 639-659.  Each learner thread
\* makes one call with the address its peer saw.  An address is an IP (0 when
\* blank) and a port.  The first test of need_addr is made without the lock
\* and races with the write under the lock: it reads the value before or
\* after that write, which is the order of the two steps.

Learners == 1..MaxLearners

PeerAddrs == [ip : 1..2, port : Ports]

LearningStep(l) ==
  /\ learning' = l
  /\ UNCHANGED <<treeAll, messenger, binding, reaping, keys>>

\* need_addr(true); my_inst.addr has no IP yet and the port it was bound to.
LearningNew(port) ==
  [pc |-> [th \in Learners |-> "idle"], lock |-> 0, need_addr |-> TRUE,
   addr |-> [ip |-> 0, port |-> port], port0 |-> port,
   peer |-> [th \in Learners |-> [ip |-> 0, port |-> 0]],
   late |-> [th \in Learners |-> FALSE], saw |-> [th \in Learners |-> FALSE],
   flips |-> 0, assigned |-> 0, by |-> 0]

InitLearn ==
  /\ TreeIdle
  /\ messenger = MessengerNew /\ binding = BindingIdle
  /\ reaping = ReapingIdle /\ keys = KeysIdle
  /\ \E port \in 0..MaxPort : learning = LearningNew(port)

\* Thread th calls learned_addr(peer_addr_for_me).
LearnCall(th, peer) ==
  /\ learning.pc[th] = "idle"
  /\ LearningStep([learning EXCEPT !.pc[th] = "test", !.peer[th] = peer,
                                   !.late[th] = ~learning.need_addr])

\* if (!need_addr) return;
LearnTest(th) ==
  /\ learning.pc[th] = "test"
  /\ LearningStep([learning EXCEPT !.saw[th] = learning.need_addr,
                                   !.pc[th] = IF learning.need_addr THEN "lock" ELSE "done"])

\* lock.Lock();
LearnLock(th) ==
  /\ learning.pc[th] = "lock" /\ learning.lock = 0
  /\ LearningStep([learning EXCEPT !.lock = th, !.pc[th] = "locked"])

\* Faulty variant: the flag is not tested again under the lock.
LearnSet_NoRecheck(th) ==
  /\ learning.pc[th] = "locked"
  /\ LearningStep([learning EXCEPT
                     !.need_addr = FALSE,
                     !.addr = [ip |-> learning.peer[th].ip, port |-> learning.addr.port],
                     !.flips = IF learning.need_addr THEN @ + 1 ELSE @,
                     !.assigned = @ + 1,
                     !.by = th,
                     !.pc[th] = "set"])

\* if (need_addr) { need_addr = false; entity_addr_t t = peer_addr_for_me;
\* t.set_port(my_inst.addr.get_port()); my_inst.addr.addr = t.addr; ... }
LearnSet(th) ==
  /\ learning.pc[th] = "locked"
  /\ LearningStep(IF learning.need_addr
                  THEN [learning EXCEPT
                          !.need_addr = FALSE,
                          !.addr = [[ip |-> learning.peer[th].ip, port |-> learning.peer[th].port]
                                      EXCEPT !.port = learning.addr.port],
                          !.flips = @ + 1,
                          !.assigned = @ + 1,
                          !.by = th,
                          !.pc[th] = "set"]
                  ELSE [learning EXCEPT !.pc[th] = "set"])

\* lock.Unlock();
LearnUnlock(th) ==
  /\ learning.pc[th] = "set"
  /\ LearningStep([learning EXCEPT !.lock = 0, !.pc[th] = "done"])

NextLearn ==
  \/ \E th \in Learners, peer \in PeerAddrs : LearnCall(th, peer)
  \/ \E th \in Learners : LearnTest(th)
  \/ \E th \in Learners : LearnLock(th)
  \/ \E th \in Learners : LearnSet(th)
  \/ \E th \in Learners : LearnUnlock(th)

SpecLearn == InitLearn /\ [][NextLearn]_vars

\* --------------------------------------------- AsyncMessenger::reap_dead
\* src/src/msg/async/AsyncMessenger.cc, lines 661-682.  A connection is a
\* number of Conns, 0 is "no connection"; peer[c] is c->peer_addr.  conns maps
\* a peer address to the connection registered under it (create_connect,
\* lines 442-458: conns[addr] = conn, for a connection made to addr), so a
\* registered connection is registered under its own peer address and nowhere
\* else.  The call starts in any such state: a dead connection may or may not
\* still be registered, and a newer one may have taken its address.

Conns == 1..MaxConns

\* The peer addresses connections are made to.
ReapAddrs == {"peer_a", "peer_b"}

InitReap ==
  /\ TreeIdle
  /\ messenger = MessengerNew /\ binding = BindingIdle
  /\ learning = LearningIdle /\ keys = KeysIdle
  /\ \E peer \in [Conns -> ReapAddrs], conns \in [ReapAddrs -> Conns \cup {0}],
        accepting \in SUBSET Conns, deleted \in SUBSET Conns :
       /\ \A a \in ReapAddrs : conns[a] # 0 => peer[conns[a]] = a
       /\ \A c \in accepting : \A a \in ReapAddrs : conns[a] # c
       /\ reaping = [pc |-> "idle", peer |-> peer, conns |-> conns, accepting |-> accepting,
                     deleted_conns |-> deleted, conns0 |-> conns, deleted0 |-> deleted,
                     num |-> 0, ret |-> 0]

\* int num = 0; Mutex::Locker l1(lock); Mutex::Locker l2(deleted_lock);
ReapCall ==
  /\ reaping.pc = "idle"
  /\ reaping' = [reaping EXCEPT !.pc = "loop", !.num = 0]
  /\ UNCHANGED <<treeAll, messenger, binding, learning, keys>>

\* Faulty variant: whatever is registered under the dead connection's peer
\* address is erased.
ReapStep_ErasesByAddress ==
  /\ reaping.pc = "loop" /\ reaping.deleted_conns # {}
  /\ LET p == CHOOSE c \in reaping.deleted_conns : \A d \in reaping.deleted_conns : c <= d
     IN  reaping' = [reaping EXCEPT
           !.conns = [@ EXCEPT ![reaping.peer[p]] = 0],
           !.accepting = @ \ {p},
           !.deleted_conns = @ \ {p},
           !.num = @ + 1]
  /\ UNCHANGED <<treeAll, messenger, binding, learning, keys>>

\* One iteration of while (!deleted_conns.empty()): p is *deleted_conns.begin();
\* conns_it = conns.find(p->peer_addr); the entry is erased if it holds p;
\* accepting_conns.erase(p); deleted_conns.erase(it); ++num;
ReapStep ==
  /\ reaping.pc = "loop" /\ reaping.deleted_conns # {}
  /\ LET p == CHOOSE c \in reaping.deleted_conns : \A d \in reaping.deleted_conns : c <= d
     IN  reaping' = [reaping EXCEPT
           !.conns = IF @[reaping.peer[p]] # 0 /\ @[reaping.peer[p]] = p
                     THEN [@ EXCEPT ![reaping.peer[p]] = 0] ELSE @,
           !.accepting = @ \ {p},
           !.deleted_conns = @ \ {p},
           !.num = @ + 1]
  /\ UNCHANGED <<treeAll, messenger, binding, learning, keys>>

\* The loop ends: return num; both locks are released.
ReapReturn ==
  /\ reaping.pc = "loop" /\ reaping.deleted_conns = {}
  /\ reaping' = [reaping EXCEPT !.pc = "done", !.ret = reaping.num]
  /\ UNCHANGED <<treeAll, messenger, binding, learning, keys>>

NextReap ==
  \/ ReapCall
  \/ ReapStep
  \/ ReapReturn

SpecReap == InitReap /\ [][NextReap]_vars

\* ------------------------------------------------- LMDBStore: stored keys
\* src/unnamed/part_000, lines 728-743, 793-827 and 974-998.  A string is a
\* sequence of bytes; a transaction's set() stores the value under
\* combine_strings(prefix, key) and the iterator splits the stored key again.

Strings == UNION {[1..n -> 0..MaxByte] : n \in 0..MaxLen}

\* string out = prefix; out.push_back(0); out.append(value); return out;
combine_strings(prefix, value) == prefix \o <<0>> \o value

\* memchr(in_data, c, in.size()): the offset of the first byte c of in, or
\* Len(in) when there is none (the NULL result).
memchr(in, c) ==
  IF \E i \in 1..Len(in) : in[i] = c
  THEN (CHOOSE i \in 1..Len(in) : in[i] = c /\ \A j \in 1..(i - 1) : in[j] # c) - 1
  ELSE Len(in)

\* int LMDBStore::split_key(string &in, string *prefix, string *key): the
\* separator searched for is the byte 1; without it -EINVAL is returned and
\* *prefix and *key keep the values prefix0 and key0 they had.
split_key(in, prefix0, key0) ==
  LET prefix_len == memchr(in, 1)
  IN  IF prefix_len >= Len(in) THEN [rc |-> -EINVAL, prefix |-> prefix0, key |-> key0]
      ELSE [rc |-> 0, prefix |-> SubSeq(in, 1, prefix_len),
            key |-> SubSeq(in, prefix_len + 2, Len(in))]

\* LMDBTransactionImpl::set(prefix, key, bl): string kk = combine_strings(prefix, key);
\* mdb_put stores the value under kk.
KeySet(prefix, key) ==
  /\ keys.pc = "idle"
  /\ keys' = [pc |-> "stored", prefix |-> prefix, key |-> key,
              kk |-> combine_strings(prefix, key),
              rc |-> 0, out_prefix |-> <<>>, out_key |-> <<>>]
  /\ UNCHANGED <<treeAll, messenger, binding, learning, reaping>>

\* The iterator at the stored record: raw_key() runs string prefix, key;
\* split_key(out, &prefix, &key); and key() returns the same key part.
KeyIterate ==
  /\ keys.pc = "stored"
  /\ LET sp == split_key(keys.kk, <<>>, <<>>)
     IN  keys' = [keys EXCEPT !.pc = "read", !.rc = sp.rc, !.out_prefix = sp.prefix,
                              !.out_key = sp.key]
  /\ UNCHANGED <<treeAll, messenger, binding, learning, reaping>>

NextKey ==
  \/ \E prefix \in Strings, key \in Strings : KeySet(prefix, key)
  \/ KeyIterate

SpecKey == InitIdle /\ [][NextKey]_vars

\* ------------------------------------------------------------- the claims

\* C1: after every completed insert, erase and replace, in any sequence from
\* the empty tree, the root, if present, is black.
C1_RootBlack == RootIsBlack(Heap)

\* An erase whose colour fixup ran has completed and left a root.
C1_Witness == last.op = "erase" /\ last.iter > 0 /\ rb_node # NULL /\ rb_is_black(Heap, rb_node)

\* C2: after every completed insert and erase no red node of the tree has a
\* red left or right child.
C2_NoRedRed == NoRedRed(Heap)

\* An insert that flipped colours has completed and the tree holds a red node
\* that has children.
C2_Witness ==
  /\ last.op = "insert" /\ last.iter > 1
  /\ \E n \in TreeNodes(Heap) : rb_is_red(Heap, n) /\ Left(Heap, n) # NULL

\* C3: after every completed insert and erase every path from the root to an
\* absent child passes through the same number of black nodes.
C3_SameBlackHeight == SameBlackHeight(Heap)

\* An erase whose fixup rotated has completed and left a tree of black-height 2
\* or more.
C3_Witness ==
  /\ last.op = "erase" /\ last.rot > 0
  /\ \E c \in PathBlackCounts(Heap, rb_node, MaxNodes) : c >= 2

\* C4: after every completed insert, erase and replace every node of the tree
\* but the root is a child of exactly the node its parent field names, the
\* root has an absent parent and no other node of the tree has.
C4_ParentsConsistent == ParentsConsistent(Heap)

\* A replace of a node that had a parent and two children has completed.
C4_Witness ==
  /\ last.op = "replace"
  /\ parent(Heap, last.other) # NULL
  /\ Left(Heap, last.other) # NULL /\ Right(Heap, last.other) # NULL

\* C5: with every node linked where the binary-search descent by key puts it,
\* the in-order traversal lists the keys in increasing order after any
\* sequence of insertions and erasures.
C5_InOrderSorted == IsSorted(InOrder(Heap))

\* An erase that rotated has completed and left at least four nodes.
C5_Witness == last.op = "erase" /\ last.rot > 0 /\ Len(InOrder(Heap)) >= 4

\* C6: after ins insertions and ers erasures, in any interleaving, exactly
\* ins - ers nodes are reachable from the root.
C6_Size == Cardinality(TreeNodes(Heap)) = ins - ers

\* Interleaved insertions and erasures, with nodes left in the tree.
C6_Witness == ers >= 2 /\ ins - ers >= 3 /\ last.op = "insert"

\* C7: once every inserted node has been erased again the root field is
\* absent; erasing the only node of a one-node tree leaves the root absent.
C7_EmptyAgain == ins = ers => rb_node = NULL

\* Three or more nodes were inserted and all of them erased.
C7_Witness == ins = ers /\ ins >= 3 /\ last.op = "erase" /\ rb_node = NULL

\* C8: replace(victim, new) puts new at victim's position: the in-order
\* sequence is the former one with victim substituted by new, new has
\* victim's colour, invariants 1-4 hold, and every other node keeps its colour
\* and its children (up to the substitution).
C8_Replace ==
  [][last'.op = "replace" =>
       LET victim == last'.node
           new == last'.other
           sub(m) == IF m = victim THEN new ELSE m
           before == InOrder(Heap)
       IN  /\ InOrder(Heap') = [i \in 1..Len(before) |-> sub(before[i])]
           /\ rb_color(Heap', new) = rb_color(Heap, victim)
           /\ RootIsBlack(Heap') /\ NoRedRed(Heap')
           /\ SameBlackHeight(Heap') /\ ParentsConsistent(Heap')
           /\ \A m \in TreeNodes(Heap) :
                /\ rb_color(Heap', sub(m)) = rb_color(Heap, m)
                /\ Left(Heap', sub(m)) = sub(Left(Heap, m))
                /\ Right(Heap', sub(m)) = sub(Right(Heap, m))
                /\ parent(Heap', sub(m)) = sub(parent(Heap, m))]_vars

\* A replace of a red node with a parent and a child has completed.
C8_Witness ==
  /\ last.op = "replace"
  /\ rb_is_red(Heap, last.other)
  /\ parent(Heap, last.other) # NULL
  /\ Left(Heap, last.other) # NULL

\* C9: inserting a node into an empty tree yields a tree whose root is that
\* node, black, with absent parent and absent children.
C9_InsertIntoEmpty ==
  [][(rb_node = NULL /\ last'.op = "insert") =>
       LET n == last'.node
       IN  /\ rb_node' = n
           /\ rb_parent_color'[n] = RB_BLACK
           /\ rb_left'[n] = NULL /\ rb_right'[n] = NULL]_vars

\* An insert into a tree that erasures had emptied has completed.
C9_Witness == last.op = "insert" /\ ers > 0 /\ ins - ers = 1 /\ rb_node = last.node

\* C10 as stated: inserting keys 1..7 in ascending order gives 4 as black
\* root, 2 and 6 as its black children, 1, 3, 5, 7 as red leaves and
\* black-height 2.
C10_Ascending7_AsStated ==
  asc = 7 =>
    /\ rb_node = 4 /\ rb_is_black(Heap, 4) /\ parent(Heap, 4) = NULL
    /\ rb_left[4] = 2 /\ rb_right[4] = 6
    /\ rb_is_black(Heap, 2) /\ rb_is_black(Heap, 6)
    /\ rb_left[2] = 1 /\ rb_right[2] = 3 /\ rb_left[6] = 5 /\ rb_right[6] = 7
    /\ \A n \in {1, 3, 5, 7} :
         rb_is_red(Heap, n) /\ rb_left[n] = NULL /\ rb_right[n] = NULL
    /\ PathBlackCounts(Heap, rb_node, MaxNodes) = {2}

\* C10 (amended): inserting keys 1..7 in ascending order gives 2 as black
\* root, 1 as its black left child (a leaf) and 4 as its red right child, 3
\* (a leaf) and 6 as the black children of 4, 5 and 7 as red leaves under 6,
\* and black-height 2.
C10_Ascending7 ==
  asc = 7 =>
    /\ rb_node = 2 /\ rb_is_black(Heap, 2) /\ parent(Heap, 2) = NULL
    /\ rb_left[2] = 1 /\ rb_right[2] = 4
    /\ rb_is_black(Heap, 1) /\ rb_is_red(Heap, 4)
    /\ rb_left[4] = 3 /\ rb_right[4] = 6
    /\ rb_is_black(Heap, 3) /\ rb_is_black(Heap, 6)
    /\ rb_left[6] = 5 /\ rb_right[6] = 7
    /\ rb_is_red(Heap, 5) /\ rb_is_red(Heap, 7)
    /\ \A n \in {1, 3, 5, 7} : rb_left[n] = NULL /\ rb_right[n] = NULL
    /\ \A p \in {2, 4, 6} :
         parent(Heap, rb_left[p]) = p /\ parent(Heap, rb_right[p]) = p
    /\ TreeNodes(Heap) = 1..7
    /\ PathBlackCounts(Heap, rb_node, MaxNodes) = {2}

\* The seventh ascending insertion has completed.
C10_Witness == asc = 7 /\ last.op = "insert" /\ last.node = 7

\* C11: in the tree built by inserting keys 1..7 in ascending order, erase of
\* node 4 puts node 5, its in-order successor, into 4's position (right child
\* of the root 2, with 4's colour and 4's children 3 and 6), invariants 1-4
\* hold and the in-order traversal is 1, 2, 3, 5, 6, 7.
C11_EraseFour ==
  (last.op = "erase" /\ last.node = 4 /\ last.was = 7) =>
    /\ InOrder(Heap) = <<1, 2, 3, 5, 6, 7>>
    /\ rb_node = 2 /\ rb_right[2] = 5 /\ parent(Heap, 5) = 2
    /\ rb_is_red(Heap, 5)
    /\ rb_left[5] = 3 /\ rb_right[5] = 6
    /\ parent(Heap, 3) = 5 /\ parent(Heap, 6) = 5
    /\ rb_left[6] = NULL
    /\ RootIsBlack(Heap) /\ NoRedRed(Heap)
    /\ SameBlackHeight(Heap) /\ ParentsConsistent(Heap)

\* Node 4 has been erased right after the seven ascending insertions.
C11_Witness ==
  last.op = "erase" /\ last.node = 4 /\ last.was = 7 /\ last.kind = "successor_below"

\* C12: in every tree reachable by insertions and erasures, with n nodes, the
\* longest root-to-absent-child path has at most 2*log2(n+1) nodes, that is
\* 2^height <= (n+1)^2, and at most twice the black-height.
C12_Height ==
  LET h == Height(Heap, rb_node, MaxNodes + 1)
      n == Cardinality(TreeNodes(Heap))
  IN  /\ Pow2(h) <= (n + 1) * (n + 1)
      /\ \A bh \in PathBlackCounts(Heap, rb_node, MaxNodes) : h <= 2 * bh

\* After the ascending insertions 1..7 the longest path has four nodes, twice
\* the black-height.
C12_Witness ==
  /\ asc = 7
  /\ Height(Heap, rb_node, MaxNodes + 1) = 4
  /\ PathBlackCounts(Heap, rb_node, MaxNodes) = {2}

\* C13: insert_color terminates for a freshly linked node: the loop never
\* runs away, every iteration but the last is a Case 1 step, and there are at
\* most a/2 Case 1 steps for a node linked with a ancestors (each step moves
\* the current node two levels up).
C13_InsertTerminates ==
  [][last'.op = "insert" =>
       /\ fault' = "none"
       /\ last'.iter = last'.flips + 1
       /\ 2 * last'.flips <= Depth(Heap, last'.other, MaxNodes)]_vars

\* An insertion below a red parent with a red uncle has completed: a Case 1
\* step took the loop from the new node, three levels down, to its
\* grandparent, where it ended.
C13_Witness ==
  /\ last.op = "insert" /\ last.flips = 1 /\ last.iter = 2
  /\ Depth(Heap, last.node, MaxNodes) = 4

C15_FixupIffBlack_AsStated ==
  [][last'.op = "erase" => (last'.other # NULL <=> last'.removed = "black")]_vars

\* C15: erase runs the colour fixup exactly when the colour removed by the
\* unlink phase is black, no child takes the vacated slot and the tree is
\* not left empty; a child that takes the slot comes out of the unlink phase
\* black, the removed colour then being black, and no fixup is run; when the
\* removed colour is red no fixup is run.
C15_FixupIffBlackAndEmptySlot ==
  [][last'.op = "erase" =>
       /\ last'.other # NULL <=>
            (last'.removed = "black" /\ last'.slot = NULL /\ rb_node' # NULL)
       /\ last'.other # NULL <=> last'.iter > 0
       /\ last'.slot # NULL =>
            /\ last'.removed = "black"
            /\ rb_is_black(__rb_erase(Heap, last'.node).t, last'.slot)
       /\ last'.removed = "red" => last'.iter = 0]_vars

\* An erase has completed that took a black node with one child out of the
\* tree without running the fixup.
C15_Witness ==
  /\ last.op = "erase" /\ last.removed = "black" /\ last.slot # NULL
  /\ last.other = NULL /\ last.iter = 0

\* C16 as stated: a parent reference aligned to 2 bytes and a colour stored
\* in the packed word are read back unchanged.
C16_RoundTrip2_AsStated ==
  stored.ref % 2 = 0 =>
    /\ ParentAddr(word) = stored.ref
    /\ __rb_color(word) = stored.color

\* C16: a parent reference aligned to 4 bytes and a colour stored in the
\* packed word are read back unchanged; rb_set_parent leaves the colour as it
\* was and rb_set_black leaves the parent as it was.
C16_RoundTrip4 ==
  /\ stored.ref % NodeAlign = 0 =>
       /\ ParentAddr(word) = stored.ref
       /\ __rb_color(word) = stored.color
  /\ stored.op = "rb_set_black" =>
       /\ ParentAddr(word) = stored.ref
       /\ __rb_color(word) = RB_BLACK

\* rb_set_parent has put a 4-byte-aligned address into a word that was black.
C16_Witness ==
  /\ stored.op = "rb_set_parent" /\ stored.ref = 8 /\ stored.color = RB_BLACK
  /\ word = 9

\* C17: on every reachable tree, first and repeated next visit every node
\* exactly once in in-order sequence and then return absent; next(n) is the
\* leftmost node of n's right subtree when present, otherwise the nearest
\* ancestor reached from its left child.
C17_Traversal ==
  LET s == InOrder(Heap)
  IN  /\ Traversal(Heap) = s
      /\ first(Heap) = IF s = <<>> THEN NULL ELSE s[1]
      /\ \A i \in 1..Len(s) :
           /\ next(Heap, s[i]) = IF i = Len(s) THEN NULL ELSE s[i + 1]
           /\ Right(Heap, s[i]) # NULL =>
                /\ next(Heap, s[i]) \in Subtree(Heap, Right(Heap, s[i]), MaxNodes)
                /\ Left(Heap, next(Heap, s[i])) = NULL
           /\ (Right(Heap, s[i]) = NULL /\ next(Heap, s[i]) # NULL) =>
                /\ s[i] \in Subtree(Heap, Left(Heap, next(Heap, s[i])), MaxNodes)
                /\ \A a \in TreeNodes(Heap) :
                     s[i] \in Subtree(Heap, Left(Heap, a), MaxNodes) =>
                       next(Heap, s[i]) \in Subtree(Heap, a, MaxNodes)

\* A tree of seven nodes after an erase in which next goes up more than one
\* level from some node and down more than one level from another.
C17_Witness ==
  /\ Len(Traversal(Heap)) = MaxNodes /\ ers >= 1
  /\ \E n \in TreeNodes(Heap) :
       /\ Right(Heap, n) = NULL
       /\ next(Heap, n) # NULL /\ next(Heap, n) # parent(Heap, n)
  /\ \E n \in TreeNodes(Heap) :
       /\ Right(Heap, n) # NULL /\ next(Heap, n) # Right(Heap, n)

\* C18 as stated: insert and erase run on the mirror image of a tree give
\* the mirror image of what they give on the tree.
C18_Mirror_AsStated ==
  [][/\ last'.op = "insert" =>
          LET n == last'.node
              d == Descend(Heap, rb_node, NULL, "left", n, MaxNodes)
          IN  insert_color(link_node(Mirror(Heap), n, d.parent, MirrorSide(d.side)), n)
                = Mirror(insert_color(link_node(Heap, n, d.parent, d.side), n))
     /\ last'.op = "erase" =>
          erase(Mirror(Heap), last'.node) = Mirror(erase(Heap, last'.node))]_vars

\* C18: the two halves of the insertion fixup and of the erase fixup are
\* exact mirrors: insert run on the mirror image of a tree (the node linked
\* at the mirrored position), the erase fixup run on the mirror image of the
\* tree the unlink phase leaves, and erase of a node with at most one child
\* run on the mirror image, give the mirror image of what they give on the
\* tree, with as many iterations and rotations.
C18_Mirror ==
  [][/\ last'.op = "insert" =>
          LET n == last'.node
              d == Descend(Heap, rb_node, NULL, "left", n, MaxNodes)
          IN  insert_color(link_node(Mirror(Heap), n, d.parent, MirrorSide(d.side)), n)
                = Mirror(insert_color(link_node(Heap, n, d.parent, d.side), n))
     /\ last'.op = "erase" =>
          LET e == __rb_erase(Heap, last'.node)
          IN  /\ e.rebalance # NULL =>
                   __rb_erase_color(Mirror(e.t), e.rebalance)
                     = Mirror(__rb_erase_color(e.t, e.rebalance))
              /\ (\E k \in {"no_left", "no_right"} : last'.kind = k) =>
                   erase(Mirror(Heap), last'.node) = Mirror(erase(Heap, last'.node))]_vars

\* An erase of a node with two children has run the fixup with two rotations.
C18_Witness ==
  /\ last.op = "erase" /\ last.rot >= 2 /\ last.other # NULL
  /\ \E k \in {"successor_is_child", "successor_below"} : last.kind = k

\* C19: erase(n) removes exactly n: the in-order sequence after the call is
\* the one before it with n deleted, every other node stays reachable from
\* the root and n is no longer reachable.
C19_EraseRemovesExactly ==
  [][last'.op = "erase" =>
       LET n == last'.node
           Keep(x) == x # n
       IN  /\ InOrder(Heap') = SelectSeq(InOrder(Heap), Keep)
           /\ Len(InOrder(Heap')) = Len(InOrder(Heap)) - 1
           /\ TreeNodes(Heap') = TreeNodes(Heap) \ {n}
           /\ n \in TreeNodes(Heap) /\ n \notin TreeNodes(Heap')]_vars

\* An erase of a node whose successor lay below its right child has left a
\* tree of at least five nodes after a rotation.
C19_Witness ==
  /\ last.op = "erase" /\ last.kind = "successor_below" /\ last.rot >= 1
  /\ Cardinality(TreeNodes(Heap)) >= 5
  /\ last.node \notin TreeNodes(Heap)

\* C20 as stated: when erase has removed a node n that had two children, the
\* successor is in n's place as described.
C20_Splice_AfterFixup ==
  [][(last'.op = "erase" /\ \E k \in {"successor_is_child", "successor_below"} : last'.kind = k) =>
       SuccessorSpliced(Heap, erase(Heap, last'.node), last'.node)]_vars

\* C20: when __rb_erase returns from taking out a node n that has two
\* children, the in-order successor s is in n's slot with n's parent, n's colour and n's
\* left child; s's former right child is in s's former slot; s's right child
\* is n's former right child unless s was n's right child, in which case s
\* keeps its own right subtree.
C20_Splice ==
  [][(last'.op = "erase" /\ \E k \in {"successor_is_child", "successor_below"} : last'.kind = k) =>
       SuccessorSpliced(Heap, __rb_erase(Heap, last'.node).t, last'.node)]_vars

\* An erase has taken out a node whose successor lay below its right child
\* and had a right child of its own.
C20_Witness ==
  /\ last.op = "erase" /\ last.kind = "successor_below" /\ last.slot # NULL
  /\ last.node \notin TreeNodes(Heap)

C22_EraseOneChild ==
  [][last'.op = "erase" =>
       /\ \A m \in TreeNodes(Heap) \cup TreeNodes(Heap') : \A t \in {Heap, Heap'} :
            (m \in TreeNodes(t) /\ OnlyChild(t, m) # NULL) =>
              /\ rb_is_black(t, m)
              /\ rb_is_red(t, OnlyChild(t, m))
              /\ Left(t, OnlyChild(t, m)) = NULL /\ Right(t, OnlyChild(t, m)) = NULL
       /\ OnlyChild(Heap, last'.node) # NULL =>
            LET n == last'.node
                c == OnlyChild(Heap, n)
                np == parent(Heap, n)
            IN  /\ parent(Heap', c) = np
                /\ rb_is_black(Heap, n) /\ rb_is_black(Heap', c)
                /\ IF np = NULL THEN rb_node' = c
                   ELSE IF Left(Heap, np) = n THEN Left(Heap', np) = c
                   ELSE Right(Heap', np) = c
                /\ Left(Heap', c) = NULL /\ Right(Heap', c) = NULL
                /\ last'.other = NULL /\ last'.iter = 0 /\ last'.rot = 0]_vars

\* An erase has removed a black node whose only child was its left child.
C22_Witness ==
  /\ last.op = "erase" /\ last.kind = "no_right" /\ last.slot # NULL
  /\ rb_is_black(Heap, last.slot) /\ last.slot # rb_node

\* C23 as stated: __rb_erase returns a node exactly when the slot it vacated
\* is left empty and the colour removed from it was black.
C23_Rebalance_AsStated ==
  [][last'.op = "erase" =>
       LET n == last'.node
           e == __rb_erase(Heap, n)
       IN  e.rebalance # NULL <=>
             (VacatedSlotEmpty(Heap, e.t, n) /\ RemovedColor(Heap, n) = RB_BLACK)]_vars

\* C23: __rb_erase returns a node exactly when the slot it vacated is left
\* empty, the colour removed from it was black and the slot has a parent
\* (the tree is not left empty); the node returned is the parent of that
\* empty slot in the tree after the unlinking; in every other case it
\* returns NULL.
C23_Rebalance ==
  [][last'.op = "erase" =>
       LET n == last'.node
           e == __rb_erase(Heap, n)
       IN  /\ e.rebalance # NULL <=>
                /\ VacatedSlotEmpty(Heap, e.t, n)
                /\ RemovedColor(Heap, n) = RB_BLACK
                /\ VacatedParent(Heap, n) # NULL
           /\ e.rebalance # NULL =>
                /\ e.rebalance = VacatedParent(Heap, n)
                /\ e.rebalance \in TreeNodes(e.t)
                /\ Left(e.t, e.rebalance) = NULL \/ Right(e.t, e.rebalance) = NULL
           /\ last'.other = e.rebalance]_vars

\* An erase has removed a node whose successor was its black, childless right
\* child, and __rb_erase returned a node.
C23_Witness ==
  /\ last.op = "erase" /\ last.kind = "successor_is_child"
  /\ last.other # NULL /\ last.removed = "black" /\ last.slot = NULL

C25_InsertRotation ==
  [][last'.op = "insert" =>
       /\ \A v \in {InsertVisits(link_node(Heap, last'.node, last'.other,
                                          Descend(Heap, rb_node, NULL, "left", last'.node,
                                                  MaxNodes).side),
                                last'.node, last'.other, MaxNodes + 1)} :
            /\ Len(v) = last'.iter
            /\ \A k \in 1..Len(v) :
                 \A i \in {InsertIteration(v[k].t, v[k].node, v[k].prnt)} :
                   i.case = "rotate" =>
                     LET t == v[k].t
                         n == v[k].node
                         p == v[k].prnt
                         g == i.gparent
                         gp == parent(t, g)
                         onLeft == p = Left(t, g)
                         inside == IF onLeft THEN n = Right(t, p) ELSE n = Left(t, p)
                         top == IF inside THEN n ELSE p
                         r == i.t
                     IN  /\ i.uncle = NULL \/ rb_is_black(t, i.uncle)
                         /\ ~i.go /\ k = Len(v)
                         /\ rb_is_black(r, top)
                         /\ parent(r, top) = gp
                         /\ IF gp = NULL THEN r.root = top
                            ELSE IF Left(t, gp) = g THEN Left(r, gp) = top
                            ELSE Right(r, gp) = top
                         /\ rb_is_red(r, g)
                         /\ parent(r, g) = top
                         /\ IF onLeft THEN Right(r, top) = g ELSE Left(r, top) = g
                         /\ r.rot = t.rot + (IF inside THEN 2 ELSE 1)
       /\ asc' = 3 =>
            /\ rb_node' = 2 /\ rb_is_black(Heap', 2) /\ parent(Heap', 2) = NULL
            /\ Left(Heap', 2) = 1 /\ Right(Heap', 2) = 3
            /\ rb_is_red(Heap', 1) /\ rb_is_red(Heap', 3)
            /\ parent(Heap', 1) = 2 /\ parent(Heap', 3) = 2
            /\ TreeNodes(Heap') = {1, 2, 3}]_vars

\* An insert of an inside grandchild under a grandparent that was not the
\* root has ended with the two rotations: the inserted node is black with
\* two red children and has a parent.
C25_Witness ==
  /\ last.op = "insert" /\ last.rot = 2 /\ last.iter = 1
  /\ rb_is_black(Heap, last.node) /\ parent(Heap, last.node) # NULL
  /\ rb_is_red(Heap, Left(Heap, last.node)) /\ rb_is_red(Heap, Right(Heap, last.node))

\* C26: an insertion-fixup Case 1 step (uncle red) changes only colours: the
\* parent and the uncle become black and the grandparent red; no left, right
\* or parent reference of any node and no root field is changed by the step,
\* and only these three nodes' words are written.  A grandparent without a
\* parent is painted black by the next iteration, which ends the loop.
C26_Case1ColoursOnly ==
  [][last'.op = "insert" =>
       \A v \in {InsertVisits(link_node(Heap, last'.node, last'.other,
                                        Descend(Heap, rb_node, NULL, "left", last'.node,
                                                MaxNodes).side),
                              last'.node, last'.other, MaxNodes + 1)} :
         \A k \in 1..Len(v) :
           \A i \in {InsertIteration(v[k].t, v[k].node, v[k].prnt)} :
             i.case = "flip" =>
               LET t == v[k].t
                   p == v[k].prnt
                   g == i.gparent
                   u == i.uncle
                   r == i.t
               IN  /\ u # NULL /\ rb_is_red(t, u) /\ rb_is_red(t, p) /\ rb_is_black(t, g)
                   /\ rb_is_black(r, p) /\ rb_is_black(r, u) /\ rb_is_red(r, g)
                   /\ r.l = t.l /\ r.r = t.r /\ r.root = t.root
                   /\ \A m \in Nodes : parent(r, m) = parent(t, m)
                   /\ \A m \in Nodes \ {p, u, g} : r.pc[m] = t.pc[m]
                   /\ r.rot = t.rot
                   /\ i.go /\ k < Len(v) /\ v[k + 1].node = g
                   /\ parent(t, g) = NULL =>
                        /\ k + 1 = Len(v)
                        /\ rb_node' = g /\ rb_is_black(Heap', g)]_vars

\* An insert has ended after one Case 1 step below the root's child: the
\* grandparent of the inserted node is red with two black children and is
\* not the root.
C26_Witness ==
  /\ last.op = "insert" /\ last.flips = 1 /\ last.rot = 0
  /\ \E g \in TreeNodes(Heap) :
       /\ g = parent(Heap, parent(Heap, last.node))
       /\ g # rb_node /\ rb_is_red(Heap, g)
       /\ rb_is_black(Heap, Left(Heap, g)) /\ rb_is_black(Heap, Right(Heap, g))

\* C27: in the erase colour fixup Case 2 (sibling black with no red child)
\* the sibling becomes red; if the parent was red it becomes black and the
\* fixup ends; otherwise the deficiency moves to the parent, and the loop
\* goes on exactly when that parent has a parent.  Nothing else is written.
C27_EraseCase2 ==
  [][last'.op = "erase" =>
       \A v \in {EraseVisits(Heap, last'.node)} :
         \A k \in 1..Len(v) :
           \A i \in {EraseColorIteration(v[k].t, v[k].node, v[k].prnt)} :
             i.case = 2 =>
               LET t == i.mid
                   p == v[k].prnt
                   w == i.black
                   r == i.t
               IN  /\ rb_is_black(t, w)
                   /\ Black(t, Left(t, w)) /\ Black(t, Right(t, w))
                   /\ rb_is_red(r, w) /\ parent(r, w) = p
                   /\ rb_is_black(r, p) /\ parent(r, p) = parent(t, p)
                   /\ r.l = t.l /\ r.r = t.r /\ r.root = t.root
                   /\ \A m \in Nodes \ {p, w} : r.pc[m] = t.pc[m]
                   /\ rb_is_red(t, p) => (i.next = NULL /\ k = Len(v))
                   /\ rb_is_black(t, p) =>
                        /\ r.pc[p] = t.pc[p]
                        /\ i.next = parent(t, p)
                        /\ (k < Len(v)) <=> (parent(t, p) # NULL)
                        /\ k < Len(v) => (v[k + 1].node = p /\ v[k + 1].prnt = parent(t, p))]_vars

\* An erase has run Case 2 under a black parent that had a parent: the fixup
\* went on one level up.
C27_Witness == last.op = "erase" /\ last.flips >= 1 /\ last.iter >= 2

C30_RemovedNodeUntouched ==
  [][/\ last'.op = "erase" =>
          \A e \in {erase(Heap, last'.node)} :
            /\ e.l[last'.node] = rb_left[last'.node]
            /\ e.r[last'.node] = rb_right[last'.node]
            /\ e.pc[last'.node] = rb_parent_color[last'.node]
            /\ Release(e, last'.node) = [Heap' EXCEPT !.rot = e.rot, !.iter = e.iter,
                                                     !.flips = e.flips]
     /\ last'.op = "replace" =>
          \A r \in {replace(Heap, last'.node, last'.other)} :
            /\ r.l[last'.node] = rb_left[last'.node]
            /\ r.r[last'.node] = rb_right[last'.node]
            /\ r.pc[last'.node] = rb_parent_color[last'.node]
            /\ r.l[last'.other] = rb_left[last'.node]
            /\ r.r[last'.other] = rb_right[last'.node]
            /\ r.pc[last'.other] = rb_parent_color[last'.node]]_vars

\* A replace has put the new node in place of a victim that had a parent and
\* two children.
C30_Witness ==
  /\ last.op = "replace" /\ last.other \in TreeNodes(Heap)
  /\ last.node \notin TreeNodes(Heap)
  /\ parent(Heap, last.other) # NULL
  /\ Left(Heap, last.other) # NULL /\ Right(Heap, last.other) # NULL

\* C31: the insertion fixup relies on the new node being linked as a red leaf:
\* after link_node the node has absent children, colour red and the given
\* parent, so the fixup's first read of the packed word as a bare parent
\* reference returns exactly that parent (absent for an empty tree).
C31_LinkedRedLeaf ==
  [][last'.op = "insert" =>
       \A L \in {link_node(Heap, last'.node, last'.other,
                           Descend(Heap, rb_node, NULL, "left", last'.node, MaxNodes).side)} :
         /\ L.l[last'.node] = NULL /\ L.r[last'.node] = NULL
         /\ rb_is_red(L, last'.node)
         /\ parent(L, last'.node) = last'.other
         /\ RedParentIsNode(L, last'.node)
         /\ rb_red_parent(L, last'.node) = last'.other
         /\ (last'.other = NULL) = (rb_node = NULL)
         /\ last'.other = NULL => L.root = last'.node
         /\ last'.other # NULL =>
              last'.node \in {Left(L, last'.other), Right(L, last'.other)}]_vars

\* An insert has linked a node under a parent that itself had a parent, and the
\* fixup that started from that parent rotated.
C31_Witness ==
  /\ last.op = "insert" /\ last.other # NULL /\ last.rot >= 1
  /\ last.node \in TreeNodes(Heap)

\* C32: once AsyncMessenger::start() has been called, a thread in wait()
\* returns after another thread has called shutdown(), in every interleaving
\* of the two calls: the stop signal is never lost.
C32_WaitReturns ==
  (/\ messenger.waitAfterStart /\ messenger.shutAfterStart
   /\ ~At("waiter", "idle") /\ At("stopper", "done")) ~> At("waiter", "done")

\* C33: Processor::bind returns 0 only if a listen request it dispatched to the
\* worker returned 0 for the final listen address, and returns a negative
\* value when every listen attempt in every one of the ms_bind_retry_count
\* rounds failed, including when no port in the range could be tried.
C33_BindResult ==
  binding.pc = "done" =>
    /\ binding.ret = 0 => [port |-> binding.port, res |-> 0] \in binding.listens
    /\ (\A l \in binding.listens : l.res < 0) => binding.ret < 0

\* C34: under any interleaving of concurrent AsyncMessenger::learned_addr
\* calls, need_addr goes from true to false exactly once and exactly one call
\* assigns my_inst.addr from its peer-supplied address, keeping the existing
\* port; every call that starts after need_addr is false changes nothing.
C34_LearnedOnce ==
  /\ [](/\ learning.need_addr = (learning.flips = 0)
        /\ learning.flips <= 1
        /\ learning.assigned = learning.flips
        /\ (\E th \in Learners : learning.pc[th] = "done") => learning.flips = 1
        /\ learning.flips = 0 => learning.addr = [ip |-> 0, port |-> learning.port0]
        /\ learning.flips = 1 =>
             /\ learning.by \in Learners /\ ~learning.late[learning.by]
             /\ learning.addr = [ip |-> learning.peer[learning.by].ip,
                                 port |-> learning.port0])
  /\ [][/\ learning.need_addr' => learning.need_addr
        /\ \A th \in Learners :
             learning.late[th] /\ learning'.pc[th] # learning.pc[th] =>
               /\ learning'.need_addr = learning.need_addr
               /\ learning'.addr = learning.addr]_vars

\* Two calls both found need_addr true in the test made without the lock and
\* both have returned; their peers reported different IPs, on ports other than
\* the messenger's own.
C34_Witness ==
  /\ \A th \in Learners : learning.pc[th] = "done" /\ learning.saw[th]
  /\ \E a \in Learners, b \in Learners : learning.peer[a].ip # learning.peer[b].ip
  /\ \A th \in Learners : learning.peer[th].port # learning.port0
  /\ learning.port0 # 0

\* C35: AsyncMessenger::reap_dead removes an entry from conns only when the
\* connection registered under the dead connection's peer address is that dead
\* connection itself, so a newer connection registered under the same address
\* stays registered; when it returns deleted_conns is empty and the return
\* value is the number of connections it removed from deleted_conns.
C35_ReapDead ==
  /\ \A a \in ReapAddrs :
       /\ reaping.conns[a] \in {reaping.conns0[a], 0}
       /\ reaping.conns[a] # reaping.conns0[a] =>
            /\ reaping.conns0[a] \in reaping.deleted0
            /\ reaping.peer[reaping.conns0[a]] = a
       /\ reaping.conns0[a] \notin reaping.deleted0 => reaping.conns[a] = reaping.conns0[a]
  /\ reaping.num = Cardinality(reaping.deleted0 \ reaping.deleted_conns)
  /\ reaping.pc = "done" =>
       /\ reaping.deleted_conns = {}
       /\ reaping.ret = Cardinality(reaping.deleted0)
       /\ \A a \in ReapAddrs : reaping.conns0[a] \in reaping.deleted0 => reaping.conns[a] = 0
       /\ reaping.accepting \cap reaping.deleted0 = {}

\* reap_dead has returned after reaping two connections: one was still
\* registered and was removed from conns, the other's peer address was held by
\* a newer, live connection, which is still registered.
C35_Witness ==
  /\ reaping.pc = "done" /\ reaping.ret = 2
  /\ \E d \in reaping.deleted0 :
       /\ reaping.conns0[reaping.peer[d]] \notin reaping.deleted0 \cup {0}
       /\ reaping.conns[reaping.peer[d]] = reaping.conns0[reaping.peer[d]]
  /\ \E d \in reaping.deleted0 :
       /\ reaping.conns0[reaping.peer[d]] = d
       /\ reaping.conns[reaping.peer[d]] = 0

\* C36: for every prefix and key, LMDBStore::split_key applied to the result
\* of LMDBStore::combine_strings(prefix, key) returns 0 and yields that prefix
\* and that key, so the iterator's key() returns the key that was stored
\* through a transaction's set().
C36_SplitCombined ==
  keys.pc = "read" =>
    /\ keys.rc = 0
    /\ keys.out_prefix = keys.prefix
    /\ keys.out_key = keys.key

====
